---- MODULE Spec2Model ----
(***************************************************************************)
(* Admission and turn-taking controller of the Discord bot:                *)
(*   src/src/bot.py                          on_message, the per-channel   *)
(*                                           rate window, the background   *)
(*                                           status monitor                *)
(*   src/src/processors/unified_enthusiasm.py  validation, pacing delay,   *)
(*                                           scoring, threshold decision   *)
(*   src/src/processors/status_coordinator.py  the coordinator's own       *)
(*                                           rate-limited flag             *)
(*                                                                         *)
(* Time is time.time() / datetime.now() in whole seconds.  An on_message   *)
(* task is cut where the code awaits something that lets other tasks run:  *)
(* the pacing sleep, the history read before the oracle call, the response *)
(* generation.  Everything between two such points is one action.          *)
(***************************************************************************)
EXTENDS Integers, Sequences, FiniteSets, TLC

\* ---------------------------------------------------------------- bounds
MaxTime == 90           \* the clock stops here
TickStep == 30          \* the clock advances by at most this many seconds at a time

Channels == {"c1"}        \* channel ids that messages arrive on
Slots == {"p1", "p2"}           \* on_message tasks that can be in flight together

\* ------------------------------------------------------ program constants
RATE_WINDOW == 60               \* bot.py: current_time - t <= 60
MONITOR_INTERVAL == 30          \* bot.py: await asyncio.sleep(30)
CLEANUP_AGE == 120              \* bot.py: current_time - t > 120
WATCHDOG_SECONDS == 65          \* status_coordinator.py: total_seconds() > 65
FALLBACK_SCORE == 8             \* unified_enthusiasm.py: "enthusiasm_score": 8
DEFAULT_THRESHOLD == 5          \* unified_enthusiasm.py: os.getenv("ENTHUSIASM_THRESHOLD", "5")
DEFAULT_SCORE == 5              \* unified_enthusiasm.py: score = 5  # Default
None == -1                      \* _last_status_change = None
Malformed == -2                 \* a RATE_LIMIT_PER_MINUTE that int() rejects with ValueError

VARIABLES
    now,                    \* time.time()
    rate_limit_per_minute,  \* int(os.getenv("RATE_LIMIT_PER_MINUTE", ...))
    threshold,              \* UnifiedEnthusiasmProcessor.threshold
    env_coordination,       \* os.getenv("BOT_STATUS_COORDINATION"): "true", "false", "unset"
    rate_timestamps,        \* _rate_timestamps: channel_id -> list of timestamps
    presence,               \* the bot's presence on the platform: "online" or "dnd"
    is_rate_limited,        \* StatusCoordinatorProcessor._is_rate_limited
    last_status_change,     \* StatusCoordinatorProcessor._last_status_change
    call,                   \* CoordSpec: the call its driver made on the coordinator in the last step
    next_monitor,           \* when background_status_monitor wakes up next
    pc,                     \* where each on_message task stands
    channel,                \* context.channel.id of the task's message
    kind,                   \* "normal", "self" (author is the bot) or "dm" (private channel)
    temp_timestamp,         \* on_message's temp_timestamp
    oracle,                 \* what the task's oracle call gave back
    result,                 \* results["unified_enthusiasm"]
    outcome,                \* how on_message ended: "rate_limited", "skip", "respond"
    stages,                 \* the stages the task has gone through, in order
    recent_commits,         \* per channel, the timestamps committed in the trailing window
    monitor,                \* background_status_monitor: "running", "failed" or "cancelled"
    sent,                   \* what the task has sent into its channel
    status_cache,           \* _status_cache: cache_key -> (status, cache_time)
    last_lookup,            \* per cache_key, what the last check_bot_status did and returned
    message,                \* the message _analyze_addressing looks at
    discord_context,        \* its discord_context argument
    addressing,             \* who_is_directly_addressed
    recent_messages,        \* the window _analyze_conversation_flow looks at: authors, oldest first
    flow,                   \* its result
    in_process,             \* RaceSpec: per caller, where its StatusCoordinatorProcessor.process call stands
    presence_writes,        \* RaceSpec: the statuses of the bot.change_presence calls made, in order
    round_start,            \* RaceSpec: the coordinator's flag and change time before the calls
    prompt,                 \* what _build_unified_prompt put into the prompt about boredom
    llm_response,           \* what _call_unified_llm gave back: the reply's text, or an exception
    parsed_result,          \* _parse_llm_response(reasoning_response)
    unified_result,         \* what process returns: score, topic_change, activities, should_skip
    filter_input,           \* filter_mentions_by_status: text, guild, mention_dnd, mention_offline
    filtered_text,          \* what it returns
    bot_status_cache,       \* bot_status.py's module level _status_cache
    processors              \* ProcessorPipeline.processors: the names of the processors kept

vars == <<now, rate_limit_per_minute, threshold, env_coordination, rate_timestamps,
          presence, is_rate_limited, last_status_change, call, next_monitor,
          pc, channel, kind, temp_timestamp, oracle, result, outcome, stages, recent_commits,
          monitor, sent, status_cache, last_lookup, message, discord_context, addressing,
          recent_messages, flow, in_process, presence_writes, round_start,
          prompt, llm_response, parsed_result, unified_result,
          filter_input, filtered_text, bot_status_cache, processors>>

config_vars == <<rate_limit_per_minute, threshold, env_coordination, processors>>
coord_vars == <<is_rate_limited, last_status_change, call>>
task_vars == <<pc, channel, kind, temp_timestamp, oracle, result, outcome, stages, sent>>
cache_vars == <<status_cache, last_lookup>>
analysis_vars == <<message, discord_context, addressing, recent_messages, flow>>
race_vars == <<in_process, presence_writes, round_start>>
parse_vars == <<prompt, llm_response, parsed_result, unified_result>>
mention_vars == <<filter_input, filtered_text, bot_status_cache>>

\* ------------------------------------------------------------ rate window

\* bot.py keeps a timestamp while current_time - t <= 60
Live_Strict(current_time, t) == current_time - t < RATE_WINDOW
Live(current_time, t) == current_time - t <= RATE_WINDOW

\* timestamps[:] = [t for t in timestamps if current_time - t <= 60]
Prune_KeepAll(timestamps, current_time) == timestamps
Prune(timestamps, current_time) == SelectSeq(timestamps, LAMBDA t : Live(current_time, t))

\* rate_limited = new_count >= rate_limit_per_minute
RateLimited_Off(new_count, limit) == new_count > limit
RateLimited(new_count, limit) == new_count >= limit

\* _rate_timestamps[channel_id], [] when the key is missing
Entries(rt, c) == IF c \in DOMAIN rt THEN rt[c] ELSE <<>>

\* _rate_timestamps[channel_id] = value
Put(rt, c, value) == [x \in DOMAIN rt \cup {c} |-> IF x = c THEN value ELSE rt[x]]

\* the list _is_rate_limited_quick leaves behind: pruned, nothing recorded
AdmitWindow_Recording(timestamps, current_time) ==
    LET kept == Prune(timestamps, current_time)
    IN  IF RateLimited(Len(kept), rate_limit_per_minute) THEN kept ELSE Append(kept, current_time)
AdmitWindow_Stamped(timestamps, current_time) == Append(Prune(timestamps, current_time), current_time)
AdmitWindow(timestamps, current_time) == Prune(timestamps, current_time)

\* _record_response_with_timestamp
RecordResponse_Twice(rt, c, timestamp) ==
    Put(rt, c, Append(Append(Entries(rt, c), timestamp), timestamp))
RecordResponse_Sorted(rt, c, timestamp) ==
    Put(rt, c, SelectSeq(Entries(rt, c), LAMBDA t : t <= timestamp) \o <<timestamp>>
               \o SelectSeq(Entries(rt, c), LAMBDA t : t > timestamp))
RecordResponse_NoCreate(rt, c, timestamp) ==
    IF c \in DOMAIN rt THEN Put(rt, c, Append(rt[c], timestamp)) ELSE rt
RecordResponse(rt, c, timestamp) == Put(rt, c, Append(Entries(rt, c), timestamp))

\* number of recorded timestamps of a list that are inside the window at time t
LiveCount(timestamps, t) == Len(SelectSeq(timestamps, LAMBDA x : t - x <= RATE_WINDOW))

\* ---------------------------------------------------------- configuration

\* bot.py: os.getenv("BOT_STATUS_COORDINATION", "false").lower() == "true"
BotCoordination_DefaultTrue == env_coordination \in {"true", "unset"}
BotCoordination == env_coordination = "true"

\* status_coordinator.py: os.getenv("BOT_STATUS_COORDINATION", "true").lower() == "true"
CoordinatorEnabled == env_coordination \in {"true", "unset"}

\* bot.change_presence(status=...): the platform takes the status unless the call raises
SetPresence(current, status, ok) == IF ok THEN status ELSE current

\* ------------------------------------------------------- decision engine

Scores == 0 .. 9
NoScore == -1                   \* the reply has no usable SCORE line

\* what self.client.messages.create gives back: a reply text, or an exception
OracleReplies ==
    [status : {"ok"}, score : Scores \cup {NoScore}] \cup [status : {"error"}, score : {NoScore}]

Min(a, b) == IF a < b THEN a ELSE b
Max(a, b) == IF a > b THEN a ELSE b

\* _parse_llm_response: score = 5 by default, a digit found is clamped to 0..9
ParseScore(reply) == IF reply.score = NoScore THEN DEFAULT_SCORE ELSE Max(0, Min(9, reply.score))

\* _basic_validation: False for the bot's own message and for a private channel
BasicValidation_NoSelfCheck(k) == k # "dm"
BasicValidation(k) == k = "normal"

\* should_respond = parsed_result["score"] >= self.threshold
ShouldRespond_Strict(score, thr) == score > thr
ShouldRespond(score, thr) == score >= thr

NoReply == [status |-> "none", score |-> NoScore]

NoResult == [should_skip |-> FALSE, reason |-> "none", enthusiasm_score |-> 0, reasoning |-> "none"]

\* return {"should_skip": True, "reason": "basic_validation_failed"}
ValidationFailed ==
    [should_skip |-> TRUE, reason |-> "basic_validation_failed", enthusiasm_score |-> 0,
     reasoning |-> "none"]

\* except Exception: return {"should_skip": False, "enthusiasm_score": 8, "reasoning": f"Error: {e}"}
FallbackResult_Thresholded(thr) ==
    [should_skip |-> ~ShouldRespond(FALLBACK_SCORE, thr), reason |-> "none",
     enthusiasm_score |-> FALLBACK_SCORE, reasoning |-> "Error"]
FallbackResult(thr) ==
    [should_skip |-> FALSE, reason |-> "none", enthusiasm_score |-> FALLBACK_SCORE,
     reasoning |-> "Error"]

\* UnifiedEnthusiasmProcessor.process from the oracle call on (steps 6 to 11 and the except)
Decide(reply, thr) ==
    IF reply.status = "error"
    THEN FallbackResult(thr)
    ELSE [should_skip |-> ~ShouldRespond(ParseScore(reply), thr), reason |-> "none",
          enthusiasm_score |-> ParseScore(reply), reasoning |-> "llm"]

\* BaseProcessor._is_enabled: os.getenv(f"{NAME}_ENABLED", "true").lower() == "true"
EnabledValues == {"true", "false", "unset"}
IsEnabled(env) == (IF env = "unset" THEN "true" ELSE env) = "true"

\* ProcessorPipeline.add_processor: a disabled processor is not appended
AddProcessor(procs, name, env) == IF IsEnabled(env) THEN Append(procs, name) ELSE procs

\* bot.py: pipeline.add_processor(unified_enthusiasm), with
\* UNIFIED_ENTHUSIASM_ENABLED not set
UnifiedPipeline == AddProcessor(<<>>, "unified_enthusiasm", "unset")

InPipeline(procs, name) == \E i \in 1 .. Len(procs) : procs[i] = name

\* ProcessorPipeline.process: the results dictionary, one entry per processor
\* of the pipeline: what process returned, or {"error": ...} when it raised
ErrorEntry == [error |-> "Unexpected error"]
PipelineProcess(procs, raised, res) ==
    [name \in {procs[i] : i \in 1 .. Len(procs)} |-> IF raised THEN ErrorEntry ELSE res]

\* dict.get(key, default), and the empty dictionary
Get(d, key, default) == IF key \in DOMAIN d THEN d[key] ELSE default
NoDict == [key \in {} |-> 0]

\* on_message: unified_result = results.get("unified_enthusiasm", {})
UnifiedResultOf(results) == Get(results, "unified_enthusiasm", NoDict)

\* on_message: unified_result.get("should_skip", False)
ShouldSkip_Closed(unified) == Get(unified, "should_skip", TRUE)
ShouldSkip(unified) == Get(unified, "should_skip", FALSE)

\* on_message: enthusiasm_score = unified_result.get("enthusiasm_score", 0)
EnthusiasmScore(unified) == Get(unified, "enthusiasm_score", 0)

\* on_message: unified_result.get("should_skip", False) decides between return and respond
OnMessageOutcome(res) == IF ShouldSkip(res) THEN "skip" ELSE "respond"

\* UnifiedEnthusiasmProcessor.process as a whole
UnifiedProcess(k, reply, thr) == IF ~BasicValidation(k) THEN ValidationFailed ELSE Decide(reply, thr)

\* ------------------------------------------------- _parse_llm_response

MaxLines == 3                   \* longest reply text tried, in lines

\* the text after "SCORE:", character by character
ScoreTexts == {<<>>, <<"x">>, <<"7">>, <<"0">>, <<"1", "0">>, <<"-", "3">>, <<"x", "9">>}

\* int(match.group(1)) of a character that \d matches, NoScore for any other
DigitValue(ch) ==
    CASE ch = "0" -> 0 [] ch = "1" -> 1 [] ch = "3" -> 3 [] ch = "7" -> 7 [] ch = "9" -> 9
      [] OTHER -> NoScore

\* re.search(r'(\d)', score_text): the first digit of the text, NoScore without one
RECURSIVE FirstDigit(_)
FirstDigit(text) ==
    IF text = <<>> THEN NoScore
    ELSE IF DigitValue(Head(text)) # NoScore THEN DigitValue(Head(text))
    ELSE FirstDigit(Tail(text))

\* the text after "TOPIC_CHANGE:" and what .upper() makes of it
TopicTexts == {"YES", "yes", "NO"}
Upper(text) == IF text = "yes" THEN "YES" ELSE text

\* the text after "ACTIVITIES:" or between the <activities> tags, as the
\* stripped pieces between its commas (no piece at all: a text of blanks)
ActivityTexts ==
    {<<>>, <<"none">>, <<"walk">>, <<"walk", "", "nothing", "read">>, <<"a", "b", "c", "d", "e">>}

\* activities_text not in ["{nothing}", "", "none", "None"]
PlaceholderText(items) ==
    items = <<>> \/ (Len(items) = 1 /\ items[1] \in {"{nothing}", "", "none", "None"})

\* [act for act in ... if act and act not in ["{nothing}", "nothing", "none", "None"]]
KeptActivities(items) ==
    SelectSeq(items, LAMBDA act : act # "" /\ act \notin {"{nothing}", "nothing", "none", "None"})

\* the lines of a reply: a tag the parser knows with the text after it, or
\* any other line
ReplyLines ==
    {[tag |-> "REASONING", text |-> <<"why">>], [tag |-> "other", text |-> <<>>]}
      \cup {[tag |-> "SCORE", text |-> t] : t \in ScoreTexts}
      \cup {[tag |-> "TOPIC_CHANGE", text |-> <<t>>] : t \in TopicTexts}
      \cup {[tag |-> "ACTIVITIES", text |-> t] : t \in ActivityTexts}

\* the <activities>...</activities> block of a reply, if it has one
XmlBlocks ==
    {[present |-> FALSE, items |-> <<>>]}
      \cup {[present |-> TRUE, items |-> t] : t \in {<<>>, <<"nothing">>, <<"a", "b", "c", "d", "e">>}}

\* every list of up to n reply lines
RECURSIVE LineLists(_)
LineLists(n) ==
    IF n = 0 THEN {<<>>}
    ELSE LineLists(n - 1) \cup
         {Append(w, l) : w \in {v \in LineLists(n - 1) : Len(v) = n - 1}, l \in ReplyLines}

\* what self.client.messages.create comes to: a text, or an exception
Responses ==
    [status : {"ok"}, lines : LineLists(MaxLines), xml : XmlBlocks]
      \cup {[status |-> "error", lines |-> <<>>, xml |-> [present |-> FALSE, items |-> <<>>]]}

NoResponse == [status |-> "none", lines |-> <<>>, xml |-> [present |-> FALSE, items |-> <<>>]]

\* "for line in lines": the fields after the lines read so far; a SCORE line
\* without a digit leaves the score as it is
RECURSIVE ParseLines(_, _)
ParseLines(lines, acc) ==
    IF lines = <<>> THEN acc
    ELSE LET line == Head(lines)
             next == CASE line.tag = "REASONING" -> [acc EXCEPT !.reasoning = line.text[1]]
                       [] line.tag = "SCORE" ->
                            IF FirstDigit(line.text) # NoScore
                            THEN [acc EXCEPT !.score = FirstDigit(line.text)]
                            ELSE acc
                       [] line.tag = "TOPIC_CHANGE" ->
                            [acc EXCEPT !.topic_change = (Upper(line.text[1]) = "YES")]
                       [] line.tag = "ACTIVITIES" ->
                            [acc EXCEPT !.activities =
                                IF ~PlaceholderText(line.text) THEN KeptActivities(line.text) ELSE <<>>]
                       [] OTHER -> acc
         IN  ParseLines(Tail(lines), next)

\* activities[:4]
FirstFour_All(activities) == activities
FirstFour(activities) == SubSeq(activities, 1, Min(4, Len(activities)))

\* the reply as the decision engine sees it: the digit the parser ends with
ReplyOf(response) ==
    IF response.status = "error" THEN [status |-> "error", score |-> NoScore]
    ELSE [status |-> "ok",
          score |-> ParseLines(response.lines,
                       [reasoning |-> "", score |-> NoScore, topic_change |-> FALSE,
                        activities |-> <<>>]).score]

NoParse ==
    [reasoning |-> "", score |-> NoScore, topic_change |-> FALSE, activities |-> <<>>,
     raw_response |-> NoResponse]

\* _parse_llm_response
ParseLlmResponse(response) ==
    LET read == ParseLines(response.lines,
                    [reasoning |-> "", score |-> NoScore, topic_change |-> FALSE,
                     activities |-> <<>>])
        activities == IF response.xml.present /\ response.xml.items # <<>>
                      THEN KeptActivities(response.xml.items) ELSE read.activities
    IN  [reasoning |-> read.reasoning,
         score |-> ParseScore(ReplyOf(response)),
         topic_change |-> read.topic_change,
         activities |-> FirstFour(activities),
         raw_response |-> response]

\* _build_unified_prompt: '[BOREDOM TRIGGER DETECTED]' if has_boredom_trigger else ''
NoPrompt == [built |-> FALSE, boredom_trigger_detected |-> FALSE]
BuildUnifiedPrompt(has_boredom_trigger) ==
    [built |-> TRUE, boredom_trigger_detected |-> has_boredom_trigger]

\* "topic_change": parsed_result.get("topic_change", False)
TopicChange_Keyword(parsed, has_boredom_trigger) == parsed.topic_change \/ has_boredom_trigger
TopicChange(parsed, has_boredom_trigger) == parsed.topic_change

NoUnified ==
    [returned |-> FALSE, should_skip |-> FALSE, enthusiasm_score |-> 0, topic_change |-> FALSE,
     activities |-> <<>>]

\* what process returns after the oracle call, with the two fields on_message
\* reads by .get(..., False) and .get(..., [])
UnifiedResult(response, thr, has_boredom_trigger) ==
    LET res == Decide(ReplyOf(response), thr)
    IN  IF response.status = "error"
        THEN [returned |-> TRUE, should_skip |-> res.should_skip,
              enthusiasm_score |-> res.enthusiasm_score, topic_change |-> FALSE,
              activities |-> <<>>]
        ELSE [returned |-> TRUE, should_skip |-> res.should_skip,
              enthusiasm_score |-> res.enthusiasm_score,
              topic_change |-> TopicChange(ParseLlmResponse(response), has_boredom_trigger),
              activities |-> ParseLlmResponse(response).activities]

\* ---------------------------------------------------- status coordinator

NoCall ==
    [op |-> "none", rate_limited |-> FALSE, at |-> 0, was |-> FALSE, was_last |-> None,
     ok |-> TRUE, calls |-> 0, returns |-> TRUE]

\* if self._is_rate_limited and self._last_status_change: ... total_seconds() > 65
WatchdogDue_Never(state, last, t) == FALSE
WatchdogDue(state, last, t) == state /\ last # None /\ t - last > WATCHDOG_SECONDS

\* should_be_rate_limited
ShouldBe_Sticky(rate_limited, state, last, t) == rate_limited \/ state
ShouldBe_InputWins(rate_limited, state, last, t) == rate_limited
ShouldBe(rate_limited, state, last, t) == IF WatchdogDue(state, last, t) THEN FALSE ELSE rate_limited

\* _update_bot_status: one bot.change_presence call inside try/except Exception;
\* a failed call is logged and nothing is raised to process.  (The early return
\* for a custom "Rate limited until" activity is never taken: every activity the
\* bot sets is of type watching.)
UpdateBotStatus_Raising(current, rate_limited, ok) ==
    [presence |-> SetPresence(current, IF rate_limited THEN "dnd" ELSE "online", ok),
     raised |-> ~ok, calls |-> 1]
UpdateBotStatus_Silent(current, rate_limited, ok) ==
    [presence |-> current, raised |-> FALSE, calls |-> 0]
UpdateBotStatus(current, rate_limited, ok) ==
    [presence |-> SetPresence(current, IF rate_limited THEN "dnd" ELSE "online", ok),
     raised |-> FALSE, calls |-> 1]

\* StatusCoordinatorProcessor.process: the new flag, the new change time, the
\* platform presence afterwards, the number of set-status calls made and the
\* value returned.  An exception out of _update_bot_status would skip the two
\* assignments and end in "except Exception: return True".
CoordinatorProcess(rate_limited, t, ok) ==
    LET should_be == ShouldBe(rate_limited, is_rate_limited, last_status_change, t)
        upd == UpdateBotStatus(presence, should_be, ok)
        same == [state |-> is_rate_limited, last |-> last_status_change]
    IN  IF ~CoordinatorEnabled
        THEN same @@ [presence |-> presence, calls |-> 0, returns |-> TRUE]
        ELSE IF should_be # is_rate_limited
        THEN IF upd.raised
             THEN same @@ [presence |-> upd.presence, calls |-> upd.calls, returns |-> TRUE]
             ELSE [state |-> should_be, last |-> t, presence |-> upd.presence,
                   calls |-> upd.calls, returns |-> TRUE]
        ELSE same @@ [presence |-> presence, calls |-> 0, returns |-> TRUE]


\* the tasks that call process at the same time
Callers == {"r1", "r2"}

NotCalling == [pc |-> "idle", rate_limited |-> FALSE, should_be |-> FALSE]
NoCallers == [r \in Callers |-> NotCalling]
NoStart == [state |-> FALSE, last |-> None]

\* process run from start to end on the state st = (flag, change time, calls
\* made so far), nothing else running in between
SeqProcess(st, rate_limited, t) ==
    LET should_be == ShouldBe(rate_limited, st.state, st.last, t)
    IN  IF CoordinatorEnabled /\ should_be # st.state
        THEN [state |-> should_be, last |-> t,
              writes |-> Append(st.writes, IF should_be THEN "dnd" ELSE "online")]
        ELSE st

\* ------------------------------------------------------ peer status cache

CACHE_SECONDS == 30             \* os.getenv("STATUS_CHECK_CACHE_SECONDS", "30")

Guilds == {"g1"}
Peers == {"b1", "b2"}

\* cache_key = f"{guild.id}_{bot_id}"
CacheKey(g, b) == <<g, b>>

\* str(member.status) of a member that is a bot
Statuses == {"online", "dnd", "offline"}

\* what guild.get_member(int(bot_id)) comes to: it raises, finds nobody, finds
\* a member that is not a bot, or finds a bot with a status
Found == {"raises", "nobody", "human"} \cup Statuses

\* current_time - cache_time < timedelta(seconds=self.cache_seconds)
Fresh_Forever(cache_time, t) == TRUE
Fresh(cache_time, t) == t - cache_time < CACHE_SECONDS

\* check_bot_status: the cache afterwards, whether the member was looked up,
\* and the status returned
CheckBotStatus_CacheAll(cache, key, found, t) ==
    IF key \in DOMAIN cache /\ Fresh(cache[key].time, t)
    THEN [cache |-> cache, queried |-> FALSE, returned |-> cache[key].status]
    ELSE LET status == IF found \in Statuses THEN found ELSE "unknown"
         IN  [cache |-> Put(cache, key, [status |-> status, time |-> t]),
              queried |-> TRUE, returned |-> status]
CheckBotStatus(cache, key, found, t) ==
    IF key \in DOMAIN cache /\ Fresh(cache[key].time, t)
    THEN [cache |-> cache, queried |-> FALSE, returned |-> cache[key].status]
    ELSE IF found \in Statuses
         THEN [cache |-> Put(cache, key, [status |-> found, time |-> t]),
               queried |-> TRUE, returned |-> found]
         ELSE [cache |-> cache, queried |-> TRUE, returned |-> "unknown"]

\* expired_keys: current_time - cache_time > timedelta(seconds=self.cache_seconds * 2)
ExpiredKeys(cache, t) == {k \in DOMAIN cache : t - cache[k].time > CACHE_SECONDS * 2}

\* _status_cache after clear_old_cache_entries
ClearOld(cache, t) == [k \in DOMAIN cache \ ExpiredKeys(cache, t) |-> cache[k]]

\* ----------------------------------------- bot_status.py: mention filter

cache_duration_seconds == 30    \* bot_status.py: _cache_duration_seconds = 30

MaxTokens == 3                  \* longest text tried, in tokens

\* the mentions r'<@!?\d+>' finds: both forms for b1, one for b2
MentionTokens == {"<@b1>", "<@!b1>", "<@b2>"}

\* the tokens of a text: mentions, a word, white space
TextTokens == MentionTokens \cup {"hi", " "}

\* re.search(r'<@!?(\d+)>', mention).group(1)
BotId(mention) == IF mention = "<@b2>" THEN "b2" ELSE "b1"

\* member.display_name
DisplayName(b) == IF b = "b1" THEN "name1" ELSE "name2"

RECURSIVE TextsUpTo(_)
TextsUpTo(n) ==
    IF n = 0 THEN {<<>>}
    ELSE TextsUpTo(n - 1) \cup
         {Append(w, tok) : w \in {v \in TextsUpTo(n - 1) : Len(v) = n - 1}, tok \in TextTokens}

\* the arguments of filter_mentions_by_status; guild gives, per bot id, what
\* guild.get_member comes to
FilterInputs ==
    [text : TextsUpTo(MaxTokens), guild : [Peers -> Found],
     mention_dnd : BOOLEAN, mention_offline : BOOLEAN]

NoFilterInput ==
    [text |-> <<>>, guild |-> [b \in Peers |-> "nobody"],
     mention_dnd |-> FALSE, mention_offline |-> FALSE]

NoText == <<"none">>

\* extract_mentions_from_text: re.findall(r'<@!?\d+>', text)
ExtractMentions(text) == SelectSeq(text, LAMBDA tok : tok \in MentionTokens)

\* check_bot_status of bot_status.py: the module's cache afterwards and the
\* status returned, which for a member that is a bot is str(member.status)
ModuleCheckBotStatus(cache, key, found, t) ==
    IF key \in DOMAIN cache /\ t - cache[key].time < cache_duration_seconds
    THEN [cache |-> cache, returned |-> cache[key].status]
    ELSE IF found \in Statuses
         THEN [cache |-> Put(cache, key, [status |-> found, time |-> t]), returned |-> found]
         ELSE [cache |-> cache, returned |-> "unknown"]

\* should_mention_entity, from the status check_bot_status returned
ShouldMentionEntity(status, mention_dnd, mention_offline) ==
    IF status = "do_not_disturb" /\ ~mention_dnd THEN FALSE
    ELSE IF status = "offline" /\ ~mention_offline THEN FALSE
    ELSE TRUE

\* filtered_text.replace(mention, new)
Replace(text, mention, new) ==
    [i \in 1 .. Len(text) |-> IF text[i] = mention THEN new ELSE text[i]]

\* filtered_text.replace(mention, "")
Remove(text, mention) == SelectSeq(text, LAMBDA tok : tok # mention)

\* str.strip()
RECURSIVE LStrip(_)
LStrip(text) == IF text # <<>> /\ Head(text) = " " THEN LStrip(Tail(text)) ELSE text
RECURSIVE RStrip(_)
RStrip(text) ==
    IF text # <<>> /\ text[Len(text)] = " " THEN RStrip(SubSeq(text, 1, Len(text) - 1)) ELSE text
Strip(text) == RStrip(LStrip(text))

\* one round of the for loop of filter_mentions_by_status on st = [text, cache]
FilterMention(st, mention, in, t) ==
    LET b == BotId(mention)
        first == ModuleCheckBotStatus(st.cache, CacheKey("g1", b), in.guild[b], t)
    IN  IF ShouldMentionEntity(first.returned, in.mention_dnd, in.mention_offline)
        THEN [text |-> st.text, cache |-> first.cache]
        ELSE IF in.guild[b] \in {"raises", "nobody"}
        THEN [text |-> Strip(Remove(st.text, mention)), cache |-> first.cache]
        ELSE [text |-> Replace(st.text, mention, DisplayName(b)),
              cache |-> ModuleCheckBotStatus(first.cache, CacheKey("g1", b), in.guild[b], t).cache]

\* the for loop over mentions
RECURSIVE FilterLoop(_, _, _, _)
FilterLoop(st, mentions, in, t) ==
    IF mentions = <<>> THEN st
    ELSE FilterLoop(FilterMention(st, Head(mentions), in, t), Tail(mentions), in, t)

\* filter_mentions_by_status: the text returned and the cache afterwards
FilterMentionsByStatus(in, cache, t) ==
    FilterLoop([text |-> in.text, cache |-> cache], ExtractMentions(in.text), in, t)

\* ------------------------------------------------- conversation analysis

People == {"self", "peer", "alice"}         \* the bot, another bot, a human
TextNames == {"self", "peer", "alice", "bob"}   \* whose name can stand in the text
HumanNames == {"alice", "bob"}              \* discord_context["entities"]["humans"]

\* a message: the users it mentions, whether it mentions @everyone, and the
\* names that occur in its lower-cased content
Messages == [mentions : SUBSET People, mention_everyone : BOOLEAN, names : SUBSET TextNames]
Contexts == [humans : SUBSET HumanNames]

NoMessage == [mentions |-> {}, mention_everyone |-> FALSE, names |-> {}]
NoContext == [humans |-> {}]

\* MessageContext: self.is_mentioned = bot.user.mentioned_in(message), which is
\* true when the message mentions @everyone or the bot's user is among
\* message.mentions
IsMentioned(msg) == msg.mention_everyone \/ "self" \in msg.mentions

\* _analyze_addressing: who_is_directly_addressed
WhoIsAddressed(msg, ctx) ==
    IF IsMentioned(msg)
    THEN IF \E user \in msg.mentions : user = "self" THEN "me" ELSE "someone_else"
    ELSE IF "self" \in msg.names
    THEN "me"
    ELSE IF \E human \in ctx.humans : human \in msg.names
    THEN "someone_else"
    ELSE "nobody"

MaxWindow == 5                  \* longest window of recent messages tried
Authors == {"self", "alice", "peer"}

\* every window of up to n messages, as the list of their authors, oldest first
RECURSIVE Windows(_)
Windows(n) ==
    IF n = 0 THEN {<<>>}
    ELSE Windows(n - 1) \cup {Append(w, a) : w \in {v \in Windows(n - 1) : Len(v) = n - 1}, a \in Authors}

\* for i, msg in enumerate(reversed(recent_messages)): the index, counted from
\* the oldest message at 0, of the first message by the bot that the scan
\* meets, -1 when it meets none
RECURSIVE ScanForward(_, _)
ScanForward(msgs, i) ==
    IF i >= Len(msgs) THEN -1
    ELSE IF msgs[i + 1] = "self" THEN i
    ELSE ScanForward(msgs, i + 1)
RECURSIVE ScanReversed(_, _)
ScanReversed(msgs, i) ==
    IF i >= Len(msgs) THEN -1
    ELSE IF msgs[Len(msgs) - i] = "self" THEN Len(msgs) - 1 - i
    ELSE ScanReversed(msgs, i + 1)

LastBotMessageIdx_First(msgs) == ScanForward(msgs, 0)
LastBotMessageIdx(msgs) == ScanReversed(msgs, 0)

NoFlow == [last_bot_message_idx |-> -1, messages_since_last_bot |-> 0]

\* _analyze_conversation_flow
AnalyzeConversationFlow(msgs) ==
    IF msgs = <<>>
    THEN [last_bot_message_idx |-> -1, messages_since_last_bot |-> 0]
    ELSE LET idx == LastBotMessageIdx(msgs)
         IN  [last_bot_message_idx |-> idx,
              messages_since_last_bot |-> IF idx >= 0 THEN Len(msgs) - idx - 1 ELSE Len(msgs)]

\* -------------------------------------------------------------- on_message

\* the replies the message tasks draw from: one score on each side of the
\* threshold, a reply without a score, and a failed call
SampleReplies ==
    {r \in OracleReplies :
        r.status = "error" \/ r.score \in {NoScore, threshold - 1, threshold} \cap (Scores \cup {NoScore})}

\* on_message up to its first real suspension: MessageContext, the quick rate
\* check (with the online/DND presence write it may make), temp_timestamp,
\* pipeline.process up to the end of _basic_validation
Arrive(m, c, k, ok) ==
    /\ pc[m] \in {"idle", "done"}
    /\ InPipeline(processors, "unified_enthusiasm")
    /\ LET old == Entries(rate_timestamps, c)
           new == AdmitWindow(old, now)
           old_count == Len(old)
           new_count == Len(new)
           rate_limited == RateLimited(new_count, rate_limit_per_minute)
           expired == ~rate_limited /\ old_count > new_count /\ old_count >= rate_limit_per_minute
       IN  /\ rate_timestamps' = Put(rate_timestamps, c, new)
           /\ channel' = [channel EXCEPT ![m] = c]
           /\ kind' = [kind EXCEPT ![m] = k]
           /\ IF rate_limited
              THEN \* _set_dnd_status_quick, then return
                   /\ presence' = IF BotCoordination
                                  THEN SetPresence(presence, "dnd", ok) ELSE presence
                   /\ pc' = [pc EXCEPT ![m] = "done"]
                   /\ outcome' = [outcome EXCEPT ![m] = "rate_limited"]
                   /\ stages' = [stages EXCEPT ![m] = <<"admit">>]
                   /\ temp_timestamp' = [temp_timestamp EXCEPT ![m] = 0]
                   /\ result' = [result EXCEPT ![m] = NoResult]
              ELSE /\ presence' = IF expired /\ BotCoordination
                                  THEN SetPresence(presence, "online", ok) ELSE presence
                   /\ temp_timestamp' = [temp_timestamp EXCEPT ![m] = now]
                   /\ stages' = [stages EXCEPT ![m] = <<"admit", "validate">>]
                   /\ IF BasicValidation(k)
                      THEN /\ pc' = [pc EXCEPT ![m] = "pacing"]
                           /\ result' = [result EXCEPT ![m] = NoResult]
                           /\ outcome' = [outcome EXCEPT ![m] = "none"]
                      ELSE /\ pc' = [pc EXCEPT ![m] = "done"]
                           /\ result' = [result EXCEPT ![m] = ValidationFailed]
                           /\ outcome' = [outcome EXCEPT ![m] = "skip"]
    /\ oracle' = [oracle EXCEPT ![m] = NoReply]
    /\ sent' = [sent EXCEPT ![m] = "nothing"]
    /\ UNCHANGED <<now, config_vars, race_vars, mention_vars, parse_vars, cache_vars, analysis_vars, coord_vars, next_monitor, monitor, recent_commits>>

\* on_message's "except Exception": the error is logged, nothing is sent
OnError_Report == "error_message"
OnError == "nothing"

\* on_message raises before the rate check: the debug line reads
\* context.channel.name, which a private channel does not have
ArriveFails(m, c, k) ==
    /\ pc[m] \in {"idle", "done"}
    /\ k = "dm"
    /\ channel' = [channel EXCEPT ![m] = c]
    /\ kind' = [kind EXCEPT ![m] = k]
    /\ pc' = [pc EXCEPT ![m] = "done"]
    /\ outcome' = [outcome EXCEPT ![m] = "error"]
    /\ stages' = [stages EXCEPT ![m] = <<>>]
    /\ temp_timestamp' = [temp_timestamp EXCEPT ![m] = 0]
    /\ result' = [result EXCEPT ![m] = NoResult]
    /\ oracle' = [oracle EXCEPT ![m] = NoReply]
    /\ sent' = [sent EXCEPT ![m] = OnError]
    /\ UNCHANGED <<now, config_vars, race_vars, mention_vars, parse_vars, cache_vars, analysis_vars, rate_timestamps, presence,
                   coord_vars, next_monitor, monitor, recent_commits>>

\* _add_random_delay: the sleep is over, the context gathering starts
Pace(m) ==
    /\ pc[m] = "pacing"
    /\ pc' = [pc EXCEPT ![m] = "scoring"]
    /\ stages' = [stages EXCEPT ![m] = Append(@, "pace")]
    /\ UNCHANGED <<now, config_vars, race_vars, mention_vars, parse_vars, cache_vars, analysis_vars, rate_timestamps, presence,
                   coord_vars, next_monitor, monitor, channel, kind, temp_timestamp, oracle,
                   result, outcome, sent, recent_commits>>

\* _add_random_delay's "except asyncio.CancelledError: ...; raise": where the
\* task is after its sleep was cancelled.  CancelledError is a BaseException,
\* so none of the "except Exception" clauses of process, ProcessorPipeline.process
\* and on_message catches it, and the task ends
AfterCancel_Swallowed == "scoring"
AfterCancel == "done"

\* the task of message m is cancelled while it is in asyncio.sleep
CancelDelay(m) ==
    /\ pc[m] = "pacing"
    /\ pc' = [pc EXCEPT ![m] = AfterCancel]
    /\ stages' = [stages EXCEPT ![m] = Append(@, "cancelled")]
    /\ outcome' = [outcome EXCEPT ![m] = "cancelled"]
    /\ UNCHANGED <<now, config_vars, race_vars, mention_vars, parse_vars, cache_vars, analysis_vars, rate_timestamps, presence,
                   coord_vars, next_monitor, monitor, channel, kind, temp_timestamp, oracle,
                   result, sent, recent_commits>>

\* _call_unified_llm: response = self.client.messages.create(...) on the
\* synchronous anthropic.Anthropic client, not awaited and without a timeout
\* argument: from here until the call returns or raises, the thread that runs
\* the event loop is inside the call
EnterOracleCall(m) ==
    /\ pc[m] = "scoring"
    /\ pc' = [pc EXCEPT ![m] = "in_call"]
    /\ UNCHANGED <<now, config_vars, race_vars, mention_vars, parse_vars, cache_vars, analysis_vars, rate_timestamps, presence,
                   coord_vars, next_monitor, monitor, channel, kind, temp_timestamp, oracle,
                   result, outcome, stages, sent, recent_commits>>

\* the event loop can run a step of task m: no other task is inside a
\* synchronous call
Turn(m) == \A n \in Slots \ {m} : pc[n] # "in_call"

\* the event loop can run the monitor task
LoopFree == \A n \in Slots : pc[n] # "in_call"

\* Step 3: _record_response_with_timestamp(context.channel.id, temp_timestamp):
\* the timestamp committed is the one taken in step 1, not time.time() now
CommitTimestamp_AtDecision(temp, current_time) == current_time
CommitTimestamp(temp, current_time) == temp

\* the oracle call returns or raises; process decides; on_message either
\* returns (skip) or commits temp_timestamp and runs status_coordinator.process
Score(m, reply, ok) ==
    /\ pc[m] \in {"scoring", "in_call"}
    /\ LET res == Decide(reply, threshold)
           cp == CoordinatorProcess(FALSE, now, ok)
       IN  /\ result' = [result EXCEPT ![m] = res]
           /\ oracle' = [oracle EXCEPT ![m] = reply]
           /\ outcome' = [outcome EXCEPT ![m] = OnMessageOutcome(res)]
           /\ IF OnMessageOutcome(res) = "skip"
              THEN /\ pc' = [pc EXCEPT ![m] = "done"]
                   /\ stages' = [stages EXCEPT ![m] = @ \o <<"oracle", "decide">>]
                   /\ UNCHANGED <<rate_timestamps, recent_commits, presence, coord_vars>>
              ELSE /\ pc' = [pc EXCEPT ![m] = "responding"]
                   /\ stages' = [stages EXCEPT ![m] = @ \o <<"oracle", "decide", "commit", "reconcile">>]
                   /\ rate_timestamps' = RecordResponse(rate_timestamps, channel[m],
                                                        CommitTimestamp(temp_timestamp[m], now))
                   /\ recent_commits' = [recent_commits EXCEPT ![channel[m]] =
                          IF now - CommitTimestamp(temp_timestamp[m], now) <= RATE_WINDOW
                          THEN Append(@, CommitTimestamp(temp_timestamp[m], now)) ELSE @]
                   /\ is_rate_limited' = cp.state
                   /\ last_status_change' = cp.last
                   /\ call' = call
                   /\ presence' = cp.presence
    /\ UNCHANGED <<now, config_vars, race_vars, mention_vars, parse_vars, cache_vars, analysis_vars, next_monitor, monitor, channel,
                   kind, temp_timestamp, sent>>

\* on_message when the pipeline holds no processor: pipeline.process returns
\* the empty dictionary without suspending, so the quick rate check,
\* temp_timestamp, the reading of the (missing) decision, the commit and
\* status_coordinator.process run in one go, up to llm_processor.process
ArriveUndecided(m, c, k, ok) ==
    /\ pc[m] \in {"idle", "done"}
    /\ ~InPipeline(processors, "unified_enthusiasm")
    /\ LET old == Entries(rate_timestamps, c)
           new == AdmitWindow(old, now)
           old_count == Len(old)
           new_count == Len(new)
           rate_limited == RateLimited(new_count, rate_limit_per_minute)
           expired == ~rate_limited /\ old_count > new_count /\ old_count >= rate_limit_per_minute
           admitted == IF expired /\ BotCoordination
                       THEN SetPresence(presence, "online", ok) ELSE presence
           unified == UnifiedResultOf(PipelineProcess(processors, FALSE, NoResult))
           cp == CoordinatorProcess(FALSE, now, ok)
       IN  /\ channel' = [channel EXCEPT ![m] = c]
           /\ kind' = [kind EXCEPT ![m] = k]
           /\ IF rate_limited
              THEN \* _set_dnd_status_quick, then return
                   /\ rate_timestamps' = Put(rate_timestamps, c, new)
                   /\ presence' = IF BotCoordination
                                  THEN SetPresence(presence, "dnd", ok) ELSE presence
                   /\ pc' = [pc EXCEPT ![m] = "done"]
                   /\ outcome' = [outcome EXCEPT ![m] = "rate_limited"]
                   /\ stages' = [stages EXCEPT ![m] = <<"admit">>]
                   /\ temp_timestamp' = [temp_timestamp EXCEPT ![m] = 0]
                   /\ result' = [result EXCEPT ![m] = NoResult]
                   /\ UNCHANGED <<recent_commits, coord_vars>>
              ELSE /\ temp_timestamp' = [temp_timestamp EXCEPT ![m] = now]
                   /\ result' = [result EXCEPT ![m] = unified]
                   /\ outcome' = [outcome EXCEPT ![m] = OnMessageOutcome(unified)]
                   /\ IF OnMessageOutcome(unified) = "skip"
                      THEN /\ rate_timestamps' = Put(rate_timestamps, c, new)
                           /\ presence' = admitted
                           /\ pc' = [pc EXCEPT ![m] = "done"]
                           /\ stages' = [stages EXCEPT ![m] = <<"admit">>]
                           /\ UNCHANGED <<recent_commits, coord_vars>>
                      ELSE /\ rate_timestamps' = RecordResponse(Put(rate_timestamps, c, new), c,
                                                                CommitTimestamp(now, now))
                           /\ recent_commits' = [recent_commits EXCEPT ![c] = Append(@, now)]
                           /\ is_rate_limited' = cp.state
                           /\ last_status_change' = cp.last
                           /\ call' = call
                           /\ presence' = IF cp.calls = 0 THEN admitted ELSE cp.presence
                           /\ pc' = [pc EXCEPT ![m] = "responding"]
                           /\ stages' = [stages EXCEPT ![m] = <<"admit", "commit", "reconcile">>]
    /\ oracle' = [oracle EXCEPT ![m] = NoReply]
    /\ sent' = [sent EXCEPT ![m] = "nothing"]
    /\ UNCHANGED <<now, config_vars, race_vars, mention_vars, parse_vars, cache_vars, analysis_vars, next_monitor, monitor>>

\* _rate_timestamps after on_message's "except Exception": the handler only
\* logs, the timestamp committed in step 3 stays where it is
WindowOnError_RolledBack(rt, c, timestamp) ==
    Put(rt, c, SelectSeq(Entries(rt, c), LAMBDA t : t # timestamp))
WindowOnError(rt, c, timestamp) == rt

\* the ways the response step can go: it works, llm_processor.process raises,
\* response_handler.process raises
Faults == {"none", "llm", "send"}

\* llm_processor.process and response_handler.process: the response is
\* generated and sent, or one of the two raises ProcessorError into
\* on_message's except; on_message ends
Generate(m, fault) ==
    /\ pc[m] = "responding"
    /\ pc' = [pc EXCEPT ![m] = "done"]
    /\ IF fault = "none"
       THEN /\ stages' = [stages EXCEPT ![m] = Append(@, "send")]
            /\ sent' = [sent EXCEPT ![m] = "response"]
            /\ rate_timestamps' = rate_timestamps
       ELSE /\ stages' = [stages EXCEPT ![m] = Append(@, "error")]
            /\ sent' = [sent EXCEPT ![m] = OnError]
            /\ rate_timestamps' = WindowOnError(rate_timestamps, channel[m], temp_timestamp[m])
    /\ UNCHANGED <<now, config_vars, race_vars, mention_vars, parse_vars, cache_vars, analysis_vars, presence,
                   coord_vars, next_monitor, monitor, channel, kind, temp_timestamp, oracle,
                   result, outcome, recent_commits>>

\* ------------------------------------------------ background_status_monitor

\* recent_count = sum(1 for t in timestamps if current_time - t <= 60)
RecentCount(timestamps, current_time) ==
    Len(SelectSeq(timestamps, LAMBDA t : current_time - t <= RATE_WINDOW))

\* any_currently_rate_limited
AnyRateLimited(rt, current_time) ==
    \E c \in DOMAIN rt : RecentCount(rt[c], current_time) >= rate_limit_per_minute

\* empty_channels: not ts or all(current_time - t > 120 for t in ts)
EmptyChannels_Oldest(rt, current_time) ==
    {c \in DOMAIN rt :
        rt[c] = <<>> \/ \E i \in 1 .. Len(rt[c]) : current_time - rt[c][i] > CLEANUP_AGE}
EmptyChannels(rt, current_time) ==
    {c \in DOMAIN rt : \A i \in 1 .. Len(rt[c]) : current_time - rt[c][i] > CLEANUP_AGE}

\* _rate_timestamps after the pops
Cleanup_Trim(rt, current_time) ==
    [c \in DOMAIN rt \ EmptyChannels(rt, current_time) |-> Tail(rt[c])]
Cleanup(rt, current_time) ==
    [c \in DOMAIN rt \ EmptyChannels(rt, current_time) |-> rt[c]]

\* the presence after "if not any_currently_rate_limited: ..."
MonitorPresence_Reset(current, rt, current_time, ok) == SetPresence(current, "online", ok)
MonitorPresence_Never(current, rt, current_time, ok) == current
MonitorPresence(current, rt, current_time, ok) ==
    IF ~AnyRateLimited(rt, current_time) /\ current = "dnd"
    THEN SetPresence(current, "online", ok) ELSE current

\* the loop after the presence step: "except Exception as e: logger.warning(...)"
\* inside the iteration, so the loop goes on whether or not the step raised
MonitorAfterPresence_Fatal(ok) == IF ok THEN "running" ELSE "failed"
MonitorAfterPresence(ok) == "running"

\* one iteration of the while loop, run when the 30 second sleep is over.  A
\* failed presence read or write (ok = FALSE) is caught inside the iteration; any other
\* exception (here: int() of a malformed RATE_LIMIT_PER_MINUTE) reaches the
\* outer "except Exception", which logs it and leaves the loop.
BackgroundMonitor(ok) ==
    /\ monitor = "running"
    /\ now = next_monitor
    /\ IF ~BotCoordination
       THEN /\ next_monitor' = now + MONITOR_INTERVAL              \* continue
            /\ UNCHANGED <<presence, rate_timestamps, monitor>>
       ELSE IF rate_limit_per_minute = Malformed
       THEN /\ monitor' = "failed"
            /\ UNCHANGED <<presence, rate_timestamps, next_monitor>>
       ELSE /\ presence' = MonitorPresence(presence, rate_timestamps, now, ok)
            /\ monitor' = IF AnyRateLimited(rate_timestamps, now)
                          THEN monitor ELSE MonitorAfterPresence(ok)
            /\ IF monitor' = "running"
               THEN /\ rate_timestamps' = Cleanup(rate_timestamps, now)
                    /\ next_monitor' = now + MONITOR_INTERVAL
               ELSE UNCHANGED <<rate_timestamps, next_monitor>>
    /\ UNCHANGED <<now, config_vars, race_vars, mention_vars, parse_vars, cache_vars, analysis_vars, coord_vars, task_vars, recent_commits>>

\* the monitor task is cancelled while it sleeps: except asyncio.CancelledError
CancelMonitor ==
    /\ monitor = "running"
    /\ monitor' = "cancelled"
    /\ UNCHANGED <<now, config_vars, race_vars, mention_vars, parse_vars, cache_vars, analysis_vars, rate_timestamps, presence,
                   coord_vars, next_monitor, task_vars, recent_commits>>

\* ------------------------------------------------------------------- clock

\* time passes, at most up to the moment the monitor's sleep ends; commits
\* that leave the trailing window are dropped from recent_commits
Tick ==
    /\ monitor = "running" => now < next_monitor
    /\ LET later == IF monitor = "running" THEN Min(now + TickStep, next_monitor) ELSE now + TickStep
       IN  /\ later <= MaxTime
           /\ now' = later
    /\ recent_commits' = [c \in DOMAIN recent_commits |->
            SelectSeq(recent_commits[c], LAMBDA t : now' - t <= RATE_WINDOW)]
    /\ UNCHANGED <<config_vars, race_vars, mention_vars, parse_vars, cache_vars, analysis_vars, rate_timestamps, presence, coord_vars,
                   next_monitor, monitor, task_vars>>

\* ----------------------------------------------------------- specification

Limits == {1, 2}                \* values of RATE_LIMIT_PER_MINUTE tried
Kinds == {"normal", "self", "dm"}

\* the state after construction, but for the pipeline bot.py builds
InitCore ==
    /\ now = 0
    /\ rate_limit_per_minute \in Limits
    /\ threshold = DEFAULT_THRESHOLD
    /\ env_coordination \in {"true", "unset"}
    /\ rate_timestamps = <<>>
    /\ presence = "online"
    /\ is_rate_limited = FALSE
    /\ last_status_change = None
    /\ call = NoCall
    /\ next_monitor = MONITOR_INTERVAL
    /\ pc = [m \in Slots |-> "idle"]
    /\ channel = [m \in Slots |-> CHOOSE c \in Channels : TRUE]
    /\ kind = [m \in Slots |-> "normal"]
    /\ temp_timestamp = [m \in Slots |-> 0]
    /\ oracle = [m \in Slots |-> NoReply]
    /\ result = [m \in Slots |-> NoResult]
    /\ outcome = [m \in Slots |-> "none"]
    /\ stages = [m \in Slots |-> <<>>]
    /\ recent_commits = [c \in Channels |-> <<>>]
    /\ monitor = "running"
    /\ sent = [m \in Slots |-> "nothing"]
    /\ status_cache = <<>>
    /\ last_lookup = <<>>
    /\ message = NoMessage
    /\ discord_context = NoContext
    /\ addressing = "nobody"
    /\ recent_messages = <<>>
    /\ flow = NoFlow
    /\ in_process = NoCallers
    /\ presence_writes = <<>>
    /\ round_start = NoStart
    /\ prompt = NoPrompt
    /\ llm_response = NoResponse
    /\ parsed_result = NoParse
    /\ unified_result = NoUnified
    /\ filter_input = NoFilterInput
    /\ filtered_text = NoText
    /\ bot_status_cache = <<>>

Init == InitCore /\ processors = UnifiedPipeline

Next ==
    \/ \E m \in Slots, c \in Channels, k \in Kinds, ok \in BOOLEAN : Arrive(m, c, k, ok)
    \/ \E m \in Slots, c \in Channels, k \in Kinds : ArriveFails(m, c, k)
    \/ \E m \in Slots : Pace(m)
    \/ \E m \in Slots, reply \in SampleReplies, ok \in BOOLEAN : Score(m, reply, ok)
    \/ \E m \in Slots, fault \in Faults : Generate(m, fault)
    \/ \E ok \in BOOLEAN : BackgroundMonitor(ok)
    \/ Tick

Spec == Init /\ [][Next]_vars

\* ------------------------------- the coordinator on its own (CoordSpec)

\* a caller runs StatusCoordinatorProcessor.process with context data
\* "rate_limited" = rate_limited; call remembers the call and what it found
Reconcile(rate_limited, ok) ==
    /\ LET cp == CoordinatorProcess(rate_limited, now, ok)
       IN  /\ is_rate_limited' = cp.state
           /\ last_status_change' = cp.last
           /\ presence' = cp.presence
           /\ call' = [op |-> "reconcile", rate_limited |-> rate_limited, at |-> now,
                       was |-> is_rate_limited, was_last |-> last_status_change,
                       ok |-> ok, calls |-> cp.calls, returns |-> cp.returns]
    /\ UNCHANGED <<now, config_vars, race_vars, mention_vars, parse_vars, cache_vars, analysis_vars, rate_timestamps, next_monitor, monitor, task_vars, recent_commits>>

\* force_online: status_coordinator._is_rate_limited = False, written from
\* outside the coordinator
ForcedFlag_Kept(flag) == flag
ForcedFlag(flag) == FALSE

\* the force_online slash command
ForceOnline(ok) ==
    /\ presence' = UpdateBotStatus(presence, FALSE, ok).presence
    /\ is_rate_limited' = ForcedFlag(is_rate_limited)
    /\ last_status_change' = now
    /\ call' = [op |-> "force_online", rate_limited |-> FALSE, at |-> now,
                was |-> is_rate_limited, was_last |-> last_status_change,
                ok |-> ok, calls |-> UpdateBotStatus(presence, FALSE, ok).calls, returns |-> TRUE]
    /\ UNCHANGED <<now, config_vars, race_vars, mention_vars, parse_vars, cache_vars, analysis_vars, rate_timestamps, next_monitor, monitor, task_vars, recent_commits>>

\* on_message's step 3 on its own: _record_response_with_timestamp(channel_id, time.time())
MaxCommits == 2                 \* CoordSpec records at most this many timestamps per channel

Commit(c) ==
    /\ rate_limit_per_minute # Malformed
    /\ Len(Entries(rate_timestamps, c)) < MaxCommits
    /\ rate_timestamps' = RecordResponse(rate_timestamps, c, now)
    /\ UNCHANGED <<now, config_vars, race_vars, mention_vars, parse_vars, cache_vars, analysis_vars, presence, coord_vars,
                   next_monitor, monitor, task_vars, recent_commits>>

CoordInit ==
    /\ now = 0
    /\ rate_limit_per_minute \in {1, Malformed}
    /\ threshold = DEFAULT_THRESHOLD
    /\ env_coordination \in {"true", "false", "unset"}
    /\ rate_timestamps = <<>>
    /\ presence = "online"
    /\ is_rate_limited = FALSE
    /\ last_status_change = None
    /\ call = NoCall
    /\ next_monitor = MONITOR_INTERVAL
    /\ pc = [m \in Slots |-> "idle"]
    /\ channel = [m \in Slots |-> CHOOSE c \in Channels : TRUE]
    /\ kind = [m \in Slots |-> "normal"]
    /\ temp_timestamp = [m \in Slots |-> 0]
    /\ oracle = [m \in Slots |-> NoReply]
    /\ result = [m \in Slots |-> NoResult]
    /\ outcome = [m \in Slots |-> "none"]
    /\ stages = [m \in Slots |-> <<>>]
    /\ recent_commits = [c \in Channels |-> <<>>]
    /\ monitor = "running"
    /\ sent = [m \in Slots |-> "nothing"]
    /\ status_cache = <<>>
    /\ last_lookup = <<>>
    /\ message = NoMessage
    /\ discord_context = NoContext
    /\ addressing = "nobody"
    /\ recent_messages = <<>>
    /\ flow = NoFlow
    /\ in_process = NoCallers
    /\ presence_writes = <<>>
    /\ round_start = NoStart
    /\ prompt = NoPrompt
    /\ llm_response = NoResponse
    /\ parsed_result = NoParse
    /\ unified_result = NoUnified
    /\ filter_input = NoFilterInput
    /\ filtered_text = NoText
    /\ bot_status_cache = <<>>
    /\ processors = UnifiedPipeline

CoordNext ==
    \/ \E rate_limited \in BOOLEAN, ok \in BOOLEAN : Reconcile(rate_limited, ok)
    \/ \E ok \in BOOLEAN : ForceOnline(ok)
    \/ \E c \in Channels : Commit(c)
    \/ \E ok \in BOOLEAN : BackgroundMonitor(ok)
    \/ CancelMonitor
    \/ Tick

CoordSpec == CoordInit /\ [][CoordNext]_vars

\* --------------------- UnifiedEnthusiasmProcessor.process on its own (DecideSpec)

ThresholdRange == 0 .. 10       \* values of ENTHUSIASM_THRESHOLD tried

\* process runs on a message of kind k, the oracle answering with reply;
\* on_message turns the result into its outcome
Evaluate(m, k, reply) ==
    /\ pc[m] \in {"idle", "done"}
    /\ kind' = [kind EXCEPT ![m] = k]
    /\ oracle' = [oracle EXCEPT ![m] = IF BasicValidation(k) THEN reply ELSE NoReply]
    /\ result' = [result EXCEPT ![m] = UnifiedProcess(k, reply, threshold)]
    /\ outcome' = [outcome EXCEPT ![m] = OnMessageOutcome(UnifiedProcess(k, reply, threshold))]
    /\ pc' = [pc EXCEPT ![m] = "done"]
    /\ UNCHANGED <<now, config_vars, race_vars, mention_vars, parse_vars, cache_vars, analysis_vars, rate_timestamps, presence,
                   coord_vars, next_monitor, monitor, channel, temp_timestamp, stages, sent,
                   recent_commits>>

DecideInit ==
    /\ now = 0
    /\ rate_limit_per_minute = 1
    /\ threshold \in ThresholdRange
    /\ env_coordination = "unset"
    /\ rate_timestamps = <<>>
    /\ presence = "online"
    /\ is_rate_limited = FALSE
    /\ last_status_change = None
    /\ call = NoCall
    /\ next_monitor = MONITOR_INTERVAL
    /\ pc = [m \in Slots |-> "idle"]
    /\ channel = [m \in Slots |-> CHOOSE c \in Channels : TRUE]
    /\ kind = [m \in Slots |-> "normal"]
    /\ temp_timestamp = [m \in Slots |-> 0]
    /\ oracle = [m \in Slots |-> NoReply]
    /\ result = [m \in Slots |-> NoResult]
    /\ outcome = [m \in Slots |-> "none"]
    /\ stages = [m \in Slots |-> <<>>]
    /\ recent_commits = [c \in Channels |-> <<>>]
    /\ monitor = "running"
    /\ sent = [m \in Slots |-> "nothing"]
    /\ status_cache = <<>>
    /\ last_lookup = <<>>
    /\ message = NoMessage
    /\ discord_context = NoContext
    /\ addressing = "nobody"
    /\ recent_messages = <<>>
    /\ flow = NoFlow
    /\ in_process = NoCallers
    /\ presence_writes = <<>>
    /\ round_start = NoStart
    /\ prompt = NoPrompt
    /\ llm_response = NoResponse
    /\ parsed_result = NoParse
    /\ unified_result = NoUnified
    /\ filter_input = NoFilterInput
    /\ filtered_text = NoText
    /\ bot_status_cache = <<>>
    /\ processors = UnifiedPipeline

DecideNext == \E m \in Slots, k \in Kinds, reply \in OracleReplies : Evaluate(m, k, reply)

DecideSpec == DecideInit /\ [][DecideNext]_vars

\* the state after construction with the default threshold, no message handled yet
PlainInit == DecideInit /\ threshold = DEFAULT_THRESHOLD

\* ------------------------------------- the peer status cache (CacheSpec)

\* check_bot_status(bot_id, guild), the member lookup coming to `found`
Lookup(g, b, found) ==
    /\ LET key == CacheKey(g, b)
           r == CheckBotStatus(status_cache, key, found, now)
       IN  /\ status_cache' = r.cache
           /\ last_lookup' = Put(last_lookup, key,
                                 [queried |-> r.queried, returned |-> r.returned, at |-> now,
                                  found |-> IF r.queried THEN found ELSE "none"])
    /\ UNCHANGED <<now, config_vars, race_vars, mention_vars, parse_vars, analysis_vars, rate_timestamps, presence, coord_vars,
                   next_monitor, monitor, task_vars, recent_commits>>

\* clear_old_cache_entries() (no caller in the repository)
\* call remembers the call and the number of expired keys it found
ClearOldCacheEntries ==
    /\ status_cache' = ClearOld(status_cache, now)
    /\ call' = [NoCall EXCEPT !.op = "clear_old_cache_entries", !.at = now,
                              !.calls = Cardinality(ExpiredKeys(status_cache, now))]
    /\ UNCHANGED <<now, config_vars, race_vars, mention_vars, parse_vars, last_lookup, analysis_vars, rate_timestamps, presence,
                   is_rate_limited, last_status_change, next_monitor, monitor, task_vars,
                   recent_commits>>

CacheNext ==
    \/ \E g \in Guilds, b \in Peers, found \in Found : Lookup(g, b, found)
    \/ ClearOldCacheEntries
    \/ \E ok \in BOOLEAN : BackgroundMonitor(ok)
    \/ Tick

CacheSpec == PlainInit /\ [][CacheNext]_vars

\* ------------------------ the two evictions on given maps (SweepSpec)

SweepChannels == {"c1", "c2"}
SweepNows == {60, 121, 181}         \* instants at which the evictions run
SweepStamps == {0, 61, 121}         \* timestamps found in the maps
MaxEntries == 2                     \* longest timestamp list

\* every list of up to n timestamps not later than t, in any order (a task
\* commits its arrival time, so a list need not be sorted)
RECURSIVE StampLists(_, _)
StampLists(n, t) ==
    IF n = 0 THEN {<<>>}
    ELSE StampLists(n - 1, t) \cup
         {Append(w, x) : w \in {v \in StampLists(n - 1, t) : Len(v) = n - 1},
                         x \in {y \in SweepStamps : y <= t}}

\* the status caches with entries written not later than t
CachesAt(t) ==
    UNION {[ks -> [status : {"online"}, time : {y \in SweepStamps : y <= t}]] :
             ks \in SUBSET {CacheKey(g, b) : g \in Guilds, b \in Peers}}

SweepInit ==
    /\ now \in SweepNows
    /\ rate_limit_per_minute = 1
    /\ threshold = DEFAULT_THRESHOLD
    /\ env_coordination \in {"true", "false"}
    /\ rate_timestamps \in [SweepChannels -> StampLists(MaxEntries, now)]
    /\ presence \in {"online", "dnd"}
    /\ is_rate_limited = FALSE
    /\ last_status_change = None
    /\ call = NoCall
    /\ next_monitor = now
    /\ pc = [m \in Slots |-> "idle"]
    /\ channel = [m \in Slots |-> CHOOSE c \in Channels : TRUE]
    /\ kind = [m \in Slots |-> "normal"]
    /\ temp_timestamp = [m \in Slots |-> 0]
    /\ oracle = [m \in Slots |-> NoReply]
    /\ result = [m \in Slots |-> NoResult]
    /\ outcome = [m \in Slots |-> "none"]
    /\ stages = [m \in Slots |-> <<>>]
    /\ recent_commits = [c \in Channels |-> <<>>]
    /\ monitor = "running"
    /\ sent = [m \in Slots |-> "nothing"]
    /\ status_cache \in CachesAt(now)
    /\ last_lookup = <<>>
    /\ message = NoMessage
    /\ discord_context = NoContext
    /\ addressing = "nobody"
    /\ recent_messages = <<>>
    /\ flow = NoFlow
    /\ in_process = NoCallers
    /\ presence_writes = <<>>
    /\ round_start = NoStart
    /\ prompt = NoPrompt
    /\ llm_response = NoResponse
    /\ parsed_result = NoParse
    /\ unified_result = NoUnified
    /\ filter_input = NoFilterInput
    /\ filtered_text = NoText
    /\ bot_status_cache = <<>>
    /\ processors = UnifiedPipeline

SweepNext ==
    \/ \E ok \in BOOLEAN : BackgroundMonitor(ok)
    \/ ClearOldCacheEntries

SweepSpec == SweepInit /\ [][SweepNext]_vars

\* ------------------------------ _analyze_addressing on its own (AddressSpec)

AnalyzeAddressing(msg, ctx) ==
    /\ message' = msg
    /\ discord_context' = ctx
    /\ addressing' = WhoIsAddressed(msg, ctx)
    /\ UNCHANGED <<now, config_vars, race_vars, mention_vars, parse_vars, cache_vars, recent_messages, flow, rate_timestamps,
                   presence, coord_vars, next_monitor, monitor, task_vars, recent_commits>>

AddressNext == \E msg \in Messages, ctx \in Contexts : AnalyzeAddressing(msg, ctx)

AddressSpec == PlainInit /\ [][AddressNext]_vars

\* ------------------------- _analyze_conversation_flow on its own (FlowSpec)

AnalyzeFlow(msgs) ==
    /\ recent_messages' = msgs
    /\ flow' = AnalyzeConversationFlow(msgs)
    /\ UNCHANGED <<now, config_vars, race_vars, mention_vars, parse_vars, cache_vars, message, discord_context, addressing,
                   rate_timestamps, presence, coord_vars, next_monitor, monitor, task_vars,
                   recent_commits>>

FlowNext == \E msgs \in Windows(MaxWindow) : AnalyzeFlow(msgs)

FlowSpec == PlainInit /\ [][FlowNext]_vars

\* ------------------- process around the 65 second threshold (WatchdogSpec)

WatchdogNows == {64, 65, 66, 130}   \* instants at which process is called

\* the coordinator some time after its last change at time 0 (to rate-limited,
\* or by force_online to not rate-limited), or before any change; after a
\* failed write the platform presence differs from the flag
WatchdogInit ==
    /\ now \in WatchdogNows
    /\ rate_limit_per_minute = 1
    /\ threshold = DEFAULT_THRESHOLD
    /\ env_coordination \in {"true", "false", "unset"}
    /\ rate_timestamps = <<>>
    /\ presence \in {"online", "dnd"}
    /\ is_rate_limited \in BOOLEAN
    /\ last_status_change \in {None, 0}
    /\ is_rate_limited => last_status_change = 0
    /\ call = NoCall
    /\ next_monitor = now + MONITOR_INTERVAL
    /\ pc = [m \in Slots |-> "idle"]
    /\ channel = [m \in Slots |-> CHOOSE c \in Channels : TRUE]
    /\ kind = [m \in Slots |-> "normal"]
    /\ temp_timestamp = [m \in Slots |-> 0]
    /\ oracle = [m \in Slots |-> NoReply]
    /\ result = [m \in Slots |-> NoResult]
    /\ outcome = [m \in Slots |-> "none"]
    /\ stages = [m \in Slots |-> <<>>]
    /\ recent_commits = [c \in Channels |-> <<>>]
    /\ monitor = "running"
    /\ sent = [m \in Slots |-> "nothing"]
    /\ status_cache = <<>>
    /\ last_lookup = <<>>
    /\ message = NoMessage
    /\ discord_context = NoContext
    /\ addressing = "nobody"
    /\ recent_messages = <<>>
    /\ flow = NoFlow
    /\ in_process = NoCallers
    /\ presence_writes = <<>>
    /\ round_start = NoStart
    /\ prompt = NoPrompt
    /\ llm_response = NoResponse
    /\ parsed_result = NoParse
    /\ unified_result = NoUnified
    /\ filter_input = NoFilterInput
    /\ filtered_text = NoText
    /\ bot_status_cache = <<>>
    /\ processors = UnifiedPipeline

WatchdogNext == \E rate_limited \in BOOLEAN, ok \in BOOLEAN : Reconcile(rate_limited, ok)

WatchdogSpec == WatchdogInit /\ [][WatchdogNext]_vars

\* ------------------------- two process calls at the same time (RaceSpec)

RaceNows == {30, 70}            \* instants at which the two calls are made

\* process from its start to the suspension inside _update_bot_status: the
\* enabled test, should_be_rate_limited, the comparison with the flag.  With
\* nothing to change the call returns; otherwise it waits in
\* "await bot.change_presence(...)", the flag not yet assigned.
ProcessCheck(r, rate_limited) ==
    /\ in_process[r].pc = "idle"
    /\ LET should_be == ShouldBe(rate_limited, is_rate_limited, last_status_change, now)
       IN  in_process' = [in_process EXCEPT ![r] =
              [pc |-> IF CoordinatorEnabled /\ should_be # is_rate_limited
                      THEN "updating" ELSE "done",
               rate_limited |-> rate_limited, should_be |-> should_be]]
    /\ UNCHANGED <<now, config_vars, parse_vars, mention_vars, presence_writes, round_start, cache_vars, analysis_vars,
                   rate_timestamps, presence, coord_vars, next_monitor, monitor, task_vars,
                   recent_commits>>

\* the change_presence call of a waiting process is over (done or failed and
\* logged); process assigns the flag and the change time and returns
ProcessAssign(r, ok) ==
    /\ in_process[r].pc = "updating"
    /\ LET upd == UpdateBotStatus(presence, in_process[r].should_be, ok)
       IN  /\ presence' = upd.presence
           /\ presence_writes' = IF upd.calls = 1
                                 THEN Append(presence_writes,
                                             IF in_process[r].should_be THEN "dnd" ELSE "online")
                                 ELSE presence_writes
    /\ is_rate_limited' = in_process[r].should_be
    /\ last_status_change' = now
    /\ in_process' = [in_process EXCEPT ![r].pc = "done"]
    /\ UNCHANGED <<now, config_vars, parse_vars, mention_vars, round_start, cache_vars, analysis_vars, rate_timestamps,
                   call, next_monitor, monitor, task_vars, recent_commits>>

RaceInit ==
    /\ now \in RaceNows
    /\ rate_limit_per_minute = 1
    /\ threshold = DEFAULT_THRESHOLD
    /\ env_coordination \in {"true", "false", "unset"}
    /\ rate_timestamps = <<>>
    /\ presence \in {"online", "dnd"}
    /\ is_rate_limited \in BOOLEAN
    /\ last_status_change \in {None, 0}
    /\ is_rate_limited => last_status_change = 0
    /\ call = NoCall
    /\ next_monitor = now + MONITOR_INTERVAL
    /\ pc = [m \in Slots |-> "idle"]
    /\ channel = [m \in Slots |-> CHOOSE c \in Channels : TRUE]
    /\ kind = [m \in Slots |-> "normal"]
    /\ temp_timestamp = [m \in Slots |-> 0]
    /\ oracle = [m \in Slots |-> NoReply]
    /\ result = [m \in Slots |-> NoResult]
    /\ outcome = [m \in Slots |-> "none"]
    /\ stages = [m \in Slots |-> <<>>]
    /\ recent_commits = [c \in Channels |-> <<>>]
    /\ monitor = "running"
    /\ sent = [m \in Slots |-> "nothing"]
    /\ status_cache = <<>>
    /\ last_lookup = <<>>
    /\ message = NoMessage
    /\ discord_context = NoContext
    /\ addressing = "nobody"
    /\ recent_messages = <<>>
    /\ flow = NoFlow
    /\ in_process = NoCallers
    /\ presence_writes = <<>>
    /\ round_start = [state |-> is_rate_limited, last |-> last_status_change]
    /\ prompt = NoPrompt
    /\ llm_response = NoResponse
    /\ parsed_result = NoParse
    /\ unified_result = NoUnified
    /\ filter_input = NoFilterInput
    /\ filtered_text = NoText
    /\ bot_status_cache = <<>>
    /\ processors = UnifiedPipeline

RaceNext ==
    \/ \E r \in Callers, rate_limited \in BOOLEAN : ProcessCheck(r, rate_limited)
    \/ \E r \in Callers, ok \in BOOLEAN : ProcessAssign(r, ok)

RaceSpec == RaceInit /\ [][RaceNext]_vars

\* --------- everything that writes the flag or the presence (OwnerSpec)

\* the coordinator driven directly, the force_online command, the monitor, and
\* messages arriving on channels whose windows a driver of
\* _record_response_with_timestamp fills
OwnerInit == CoordInit /\ rate_limit_per_minute = 1

OwnerSlot == CHOOSE m \in Slots : TRUE   \* one message task is enough here

OwnerNext ==
    \/ \E rate_limited \in BOOLEAN, ok \in BOOLEAN : Reconcile(rate_limited, ok)
    \/ \E ok \in BOOLEAN : ForceOnline(ok)
    \/ \E c \in Channels : Commit(c)
    \/ \E c \in Channels, ok \in BOOLEAN : Arrive(OwnerSlot, c, "normal", ok)
    \/ \E ok \in BOOLEAN : BackgroundMonitor(ok)
    \/ Tick

OwnerSpec == OwnerInit /\ [][OwnerNext]_vars

\* ------------------- the oracle's reply through process (ParseSpec)

\* _call_unified_llm: the prompt is built from the current message, the
\* oracle answers with any text or the call raises
CallUnifiedLlm(has_boredom_trigger, response) ==
    /\ llm_response = NoResponse
    /\ prompt' = BuildUnifiedPrompt(has_boredom_trigger)
    /\ llm_response' = response
    /\ UNCHANGED <<now, config_vars, race_vars, mention_vars, parsed_result, unified_result, cache_vars,
                   analysis_vars, rate_timestamps, presence, coord_vars, next_monitor, monitor,
                   task_vars, recent_commits>>

\* process steps 7 to 11: the reply is parsed and the result returned; after a
\* failed call the except returns the fallback
ParseAndDecide ==
    /\ llm_response # NoResponse
    /\ ~unified_result.returned
    /\ parsed_result' = IF llm_response.status = "ok"
                        THEN ParseLlmResponse(llm_response) ELSE parsed_result
    /\ unified_result' = UnifiedResult(llm_response, threshold, prompt.boredom_trigger_detected)
    /\ UNCHANGED <<now, config_vars, race_vars, mention_vars, prompt, llm_response, cache_vars,
                   analysis_vars, rate_timestamps, presence, coord_vars, next_monitor, monitor,
                   task_vars, recent_commits>>

ParseNext ==
    \/ /\ llm_response = NoResponse
       /\ \E has_boredom_trigger \in BOOLEAN, response \in Responses :
                CallUnifiedLlm(has_boredom_trigger, response)
    \/ ParseAndDecide

ParseSpec == PlainInit /\ [][ParseNext]_vars

\* ------------- message tasks that can be cancelled in their delay (PaceSpec)

PaceChannels == {"c1", "c2"}

\* the oracle replies drawn here: one score that responds, one that skips
PaceReplies == {r \in OracleReplies : r.status = "ok" /\ r.score \in {threshold - 1, threshold}}

PaceInit ==
    /\ now = 0
    /\ rate_limit_per_minute = 2
    /\ threshold = DEFAULT_THRESHOLD
    /\ env_coordination = "true"
    /\ rate_timestamps = <<>>
    /\ presence = "online"
    /\ is_rate_limited = FALSE
    /\ last_status_change = None
    /\ call = NoCall
    /\ next_monitor = MONITOR_INTERVAL
    /\ pc = [m \in Slots |-> "idle"]
    /\ channel = [m \in Slots |-> CHOOSE c \in PaceChannels : TRUE]
    /\ kind = [m \in Slots |-> "normal"]
    /\ temp_timestamp = [m \in Slots |-> 0]
    /\ oracle = [m \in Slots |-> NoReply]
    /\ result = [m \in Slots |-> NoResult]
    /\ outcome = [m \in Slots |-> "none"]
    /\ stages = [m \in Slots |-> <<>>]
    /\ recent_commits = [c \in PaceChannels |-> <<>>]
    /\ monitor = "running"
    /\ sent = [m \in Slots |-> "nothing"]
    /\ status_cache = <<>>
    /\ last_lookup = <<>>
    /\ message = NoMessage
    /\ discord_context = NoContext
    /\ addressing = "nobody"
    /\ recent_messages = <<>>
    /\ flow = NoFlow
    /\ in_process = NoCallers
    /\ presence_writes = <<>>
    /\ round_start = NoStart
    /\ prompt = NoPrompt
    /\ llm_response = NoResponse
    /\ parsed_result = NoParse
    /\ unified_result = NoUnified
    /\ filter_input = NoFilterInput
    /\ filtered_text = NoText
    /\ bot_status_cache = <<>>
    /\ processors = UnifiedPipeline

PaceNext ==
    \/ \E m \in Slots, c \in PaceChannels : Arrive(m, c, "normal", TRUE)
    \/ \E m \in Slots : Pace(m)
    \/ \E m \in Slots : CancelDelay(m)
    \/ \E m \in Slots, reply \in PaceReplies : Score(m, reply, TRUE)
    \/ \E m \in Slots : Generate(m, "none")
    \/ BackgroundMonitor(TRUE)
    \/ Tick

PaceSpec == PaceInit /\ [][PaceNext]_vars

\* ------------------- tasks on one event loop with a slow oracle (OracleSpec)

OracleInit == Init /\ rate_limit_per_minute = 2 /\ env_coordination = "true"

\* a message handler's steps, run by the event loop when it is free
TaskStep(m) ==
    \/ \E c \in Channels : Arrive(m, c, "normal", TRUE)
    \/ Pace(m)
    \/ EnterOracleCall(m)
    \/ \E fault \in Faults : Generate(m, fault)

\* the oracle call of m returns a reply or raises
OracleAnswers(m) == \E reply \in SampleReplies : Score(m, reply, TRUE)

MonitorStep == LoopFree /\ BackgroundMonitor(TRUE)

OracleNext ==
    \/ \E m \in Slots : Turn(m) /\ TaskStep(m)
    \/ \E m \in Slots : Turn(m) /\ OracleAnswers(m)
    \/ MonitorStep
    \/ Tick

OracleSpec == OracleInit /\ [][OracleNext]_vars

\* the scheduling the event loop gives: time passes, a task that can run is
\* run, the monitor is run when its sleep is over.  Nothing makes a pending
\* oracle call return.
OracleFairSpec ==
    /\ OracleSpec
    /\ WF_vars(Tick)
    /\ WF_vars(MonitorStep)
    /\ \A m \in Slots : WF_vars(Turn(m) /\ (Pace(m) \/ EnterOracleCall(m) \/ Generate(m, "none")))

\* --------------------- filter_mentions_by_status on its own (MentionSpec)

FilterNow == 40

\* the module's cache before the call: empty, or an entry for b1 written by an
\* earlier check_bot_status, still fresh (written at 20) or not (written at 0)
FilterCaches ==
    {<<>>} \cup
    {Put(<<>>, CacheKey("g1", "b1"), [status |-> st, time |-> t]) :
        st \in {"dnd", "offline"}, t \in {0, 20}}

MentionInit ==
    /\ now = FilterNow
    /\ bot_status_cache \in FilterCaches
    /\ processors = UnifiedPipeline
    /\ filter_input = NoFilterInput
    /\ filtered_text = NoText
    /\ rate_limit_per_minute = 2
    /\ threshold = DEFAULT_THRESHOLD
    /\ env_coordination = "true"
    /\ rate_timestamps = <<>>
    /\ presence = "online"
    /\ is_rate_limited = FALSE
    /\ last_status_change = None
    /\ call = NoCall
    /\ next_monitor = FilterNow + MONITOR_INTERVAL
    /\ pc = [m \in Slots |-> "idle"]
    /\ channel = [m \in Slots |-> CHOOSE c \in Channels : TRUE]
    /\ kind = [m \in Slots |-> "normal"]
    /\ temp_timestamp = [m \in Slots |-> 0]
    /\ oracle = [m \in Slots |-> NoReply]
    /\ result = [m \in Slots |-> NoResult]
    /\ outcome = [m \in Slots |-> "none"]
    /\ stages = [m \in Slots |-> <<>>]
    /\ recent_commits = [c \in Channels |-> <<>>]
    /\ monitor = "running"
    /\ sent = [m \in Slots |-> "nothing"]
    /\ status_cache = <<>>
    /\ last_lookup = <<>>
    /\ message = NoMessage
    /\ discord_context = NoContext
    /\ addressing = "nobody"
    /\ recent_messages = <<>>
    /\ flow = NoFlow
    /\ in_process = NoCallers
    /\ presence_writes = <<>>
    /\ round_start = NoStart
    /\ prompt = NoPrompt
    /\ llm_response = NoResponse
    /\ parsed_result = NoParse
    /\ unified_result = NoUnified

\* one call of filter_mentions_by_status(text, guild, mention_dnd, mention_offline)
FilterMentions(in) ==
    /\ filter_input' = in
    /\ LET r == FilterMentionsByStatus(in, bot_status_cache, now)
       IN  /\ filtered_text' = r.text
           /\ bot_status_cache' = r.cache
    /\ UNCHANGED <<now, config_vars, race_vars, parse_vars, cache_vars, analysis_vars, rate_timestamps,
                   presence, coord_vars, next_monitor, monitor, task_vars, recent_commits>>

MentionNext == filtered_text = NoText /\ \E in \in FilterInputs : FilterMentions(in)

MentionSpec == MentionInit /\ [][MentionNext]_vars

\* ------------------------ three messages in flight on one channel (CapSpec)

CapSlots == {"p1", "p2", "p3"}

CapInit ==
    /\ now = 0
    /\ rate_limit_per_minute = 1
    /\ threshold = DEFAULT_THRESHOLD
    /\ env_coordination = "unset"
    /\ rate_timestamps = <<>>
    /\ presence = "online"
    /\ is_rate_limited = FALSE
    /\ last_status_change = None
    /\ call = NoCall
    /\ next_monitor = MONITOR_INTERVAL
    /\ pc = [m \in CapSlots |-> "idle"]
    /\ channel = [m \in CapSlots |-> CHOOSE c \in Channels : TRUE]
    /\ kind = [m \in CapSlots |-> "normal"]
    /\ temp_timestamp = [m \in CapSlots |-> 0]
    /\ oracle = [m \in CapSlots |-> NoReply]
    /\ result = [m \in CapSlots |-> NoResult]
    /\ outcome = [m \in CapSlots |-> "none"]
    /\ stages = [m \in CapSlots |-> <<>>]
    /\ recent_commits = [c \in Channels |-> <<>>]
    /\ monitor = "running"
    /\ sent = [m \in CapSlots |-> "nothing"]
    /\ status_cache = <<>>
    /\ last_lookup = <<>>
    /\ message = NoMessage
    /\ discord_context = NoContext
    /\ addressing = "nobody"
    /\ recent_messages = <<>>
    /\ flow = NoFlow
    /\ in_process = NoCallers
    /\ presence_writes = <<>>
    /\ round_start = NoStart
    /\ prompt = NoPrompt
    /\ llm_response = NoResponse
    /\ parsed_result = NoParse
    /\ unified_result = NoUnified
    /\ filter_input = NoFilterInput
    /\ filtered_text = NoText
    /\ bot_status_cache = <<>>
    /\ processors = UnifiedPipeline

CapNext ==
    \/ \E m \in CapSlots, c \in Channels : Arrive(m, c, "normal", TRUE)
    \/ \E m \in CapSlots : Pace(m)
    \/ \E m \in CapSlots, reply \in PaceReplies : Score(m, reply, TRUE)
    \/ \E m \in CapSlots : Generate(m, "none")
    \/ BackgroundMonitor(TRUE)
    \/ Tick

CapSpec == CapInit /\ [][CapNext]_vars

\* ------------- the monitor scheduled fairly, presence calls working (QuietSpec)

QuietInit == Init /\ rate_limit_per_minute = 1 /\ env_coordination = "true"

\* messages may arrive, and may stop arriving; the presence calls succeed
QuietNext ==
    \/ \E m \in Slots, c \in Channels : Arrive(m, c, "normal", TRUE)
    \/ \E m \in Slots : Pace(m)
    \/ \E m \in Slots, reply \in PaceReplies : Score(m, reply, TRUE)
    \/ \E m \in Slots : Generate(m, "none")
    \/ BackgroundMonitor(TRUE)
    \/ Tick

\* asyncio wakes the monitor when its sleep is over, and time passes
QuietSpec ==
    /\ QuietInit
    /\ [][QuietNext]_vars
    /\ WF_vars(Tick)
    /\ WF_vars(BackgroundMonitor(TRUE))

\* ------------------ the pipeline built with or without its processor (FailOpenSpec)

\* UNIFIED_ENTHUSIASM_ENABLED is "true", "false" or not set when bot.py builds the pipeline
FailOpenInit ==
    /\ InitCore
    /\ rate_limit_per_minute = 2
    /\ env_coordination = "true"
    /\ \E env \in EnabledValues : processors = AddProcessor(<<>>, "unified_enthusiasm", env)

FailOpenNext ==
    \/ \E m \in Slots, c \in Channels, k \in {"normal", "self"}, ok \in BOOLEAN : Arrive(m, c, k, ok)
    \/ \E m \in Slots, c \in Channels, k \in {"normal", "self"}, ok \in BOOLEAN : ArriveUndecided(m, c, k, ok)
    \/ \E m \in Slots : Pace(m)
    \/ \E m \in Slots, reply \in PaceReplies, ok \in BOOLEAN : Score(m, reply, ok)
    \/ \E m \in Slots, fault \in Faults : Generate(m, fault)
    \/ \E ok \in BOOLEAN : BackgroundMonitor(ok)
    \/ Tick

FailOpenSpec == FailOpenInit /\ [][FailOpenNext]_vars

\* ------------------------------------------------------------------ claims

\* the step is task m running on_message from the arrival of a message on,
\* the rate check included
SlotState(m) == <<pc[m], channel[m], kind[m], temp_timestamp[m], oracle[m], result[m], outcome[m], stages[m]>>
Arrives(m) ==
    /\ pc[m] \in {"idle", "done"}
    /\ pc'[m] \in {"pacing", "done"}
    /\ SlotState(m)' # SlotState(m)
    /\ stages'[m] # <<>>

\* C1: an admission check refuses a message exactly when at least `limit`
\* timestamps committed on its channel lie in the trailing 60 seconds; it
\* admits again as soon as fewer than `limit` of them are still inside the window
C1_AdmissionCorrectness ==
    [][\A m \in Slots :
         Arrives(m) =>
            (outcome'[m] = "rate_limited"
               <=> LiveCount(recent_commits[channel'[m]], now) >= rate_limit_per_minute)]_vars

\* a message was refused, and after the window passed the next one on the
\* same channel has just been admitted
C1_Witness ==
    \E m1, m2 \in Slots :
        /\ m1 # m2
        /\ channel[m1] = channel[m2]
        /\ outcome[m1] = "rate_limited"
        /\ pc[m2] = "pacing"
        /\ temp_timestamp[m2] = now
        /\ now > RATE_WINDOW
        /\ Len(recent_commits[channel[m2]]) < rate_limit_per_minute

\* C2: with limit 1, under every interleaving of two message tasks a channel's
\* list never holds more than `limit` timestamps that lie in the same window
C2_NoDoubleCount ==
    rate_limit_per_minute = 1 =>
        \A c \in DOMAIN rate_timestamps :
            \A i, j \in 1 .. Len(rate_timestamps[c]) :
                i # j =>
                    \/ rate_timestamps[c][i] - rate_timestamps[c][j] > RATE_WINDOW
                    \/ rate_timestamps[c][j] - rate_timestamps[c][i] > RATE_WINDOW

\* C3: a task appends exactly one timestamp (its temp_timestamp) to its
\* channel's list when its outcome is respond, and appends nothing when it is
\* skipped, rejected by validation or refused by admission
C3_CommitExactlyOnRespond ==
    [][\A m \in Slots :
         LET c == channel'[m]
             before == Entries(rate_timestamps, c)
             after == Entries(rate_timestamps', c)
         IN  /\ (pc[m] = "scoring" /\ pc'[m] # "scoring") =>
                    IF outcome'[m] = "respond"
                    THEN /\ after = Append(before, temp_timestamp[m])
                         /\ \A d \in DOMAIN rate_timestamps \ {c} :
                                rate_timestamps'[d] = rate_timestamps[d]
                    ELSE outcome'[m] = "skip" /\ rate_timestamps' = rate_timestamps
             /\ (Arrives(m) /\ pc'[m] = "done") =>
                    /\ outcome'[m] \in {"skip", "rate_limited"}
                    /\ Len(after) <= Len(before)
                    /\ \A i \in 1 .. Len(after) : \E j \in 1 .. Len(before) : after[i] = before[j]
             /\ (pc[m] \in {"pacing", "responding"} /\ pc'[m] # pc[m]) =>
                    rate_timestamps' = rate_timestamps]_vars

\* one task has responded and its timestamp is the only one in the list,
\* another task on the same channel was skipped on its score
C3_Witness ==
    \E m1, m2 \in Slots :
        /\ outcome[m1] = "respond"
        /\ outcome[m2] = "skip"
        /\ oracle[m2].status = "ok"
        /\ channel[m1] = channel[m2]
        /\ Entries(rate_timestamps, channel[m1]) = <<temp_timestamp[m1]>>

\* C4: when admission refuses a message the task ends there and records
\* nothing: the channel's list afterwards is the list before without its
\* expired timestamps, the live ones are all kept, no other list changes
C4_RejectKeepsWindow ==
    [][\A m \in Slots :
         (Arrives(m) /\ outcome'[m] = "rate_limited") =>
            LET c == channel'[m]
                before == Entries(rate_timestamps, c)
                after == Entries(rate_timestamps', c)
            IN  /\ pc'[m] = "done"
                /\ stages'[m] = <<"admit">>
                /\ after = SelectSeq(before, LAMBDA t : now - t <= RATE_WINDOW)
                /\ recent_commits' = recent_commits
                /\ \A d \in DOMAIN rate_timestamps \ {c} :
                        rate_timestamps'[d] = rate_timestamps[d]]_vars

\* a message has been refused on a channel whose list is full
C4_Witness ==
    \E m \in Slots :
        /\ pc[m] = "done"
        /\ outcome[m] = "rate_limited"
        /\ channel[m] \in DOMAIN rate_timestamps
        /\ LiveCount(rate_timestamps[channel[m]], now) >= rate_limit_per_minute

\* C5 as stated: with coordination enabled, once a refused message has been
\* handled the coordinator's own state is rate-limited (Busy)
C5_Original ==
    \A m \in Slots :
        (pc[m] = "done" /\ outcome[m] = "rate_limited" /\ env_coordination = "true")
            => is_rate_limited

\* C5 as amended: handling a refused message leaves the coordinator's state
\* and change time alone; the handler itself asks the platform for
\* do-not-disturb when BOT_STATUS_COORDINATION is "true", and does not touch
\* the presence otherwise
C5_RejectSetsPresenceOnly ==
    [][\A m \in Slots :
         (Arrives(m) /\ outcome'[m] = "rate_limited") =>
            /\ is_rate_limited' = is_rate_limited
            /\ last_status_change' = last_status_change
            /\ presence' \in {presence, "dnd"}
            /\ env_coordination # "true" => presence' = presence]_vars

\* a refused message has been handled: the platform shows do-not-disturb, the
\* coordinator, although enabled, still holds "not rate limited"
C5_Witness ==
    \E m \in Slots :
        /\ pc[m] = "done"
        /\ outcome[m] = "rate_limited"
        /\ env_coordination = "true"
        /\ presence = "dnd"
        /\ ~is_rate_limited
        /\ last_status_change = None

\* C6: the admission check records nothing: it leaves the number of live
\* timestamps of the channel as it was, so a second check at the same instant
\* gives the answer the first one gave
C6_AdmitReadOnly ==
    [][\A m \in Slots :
         Arrives(m) =>
            LET c == channel'[m]
            IN  /\ LiveCount(Entries(rate_timestamps', c), now)
                      = LiveCount(Entries(rate_timestamps, c), now)
                /\ outcome'[m] = "rate_limited"
                      <=> LiveCount(Entries(rate_timestamps', c), now) >= rate_limit_per_minute]_vars

\* two messages have been admitted at the same instant, one after the other,
\* on a channel that is one short of its limit, and the list has not grown
C6_Witness ==
    \E m1, m2 \in Slots :
        /\ m1 # m2
        /\ channel[m1] = channel[m2]
        /\ pc[m1] = "pacing" /\ pc[m2] = "pacing"
        /\ temp_timestamp[m1] = now /\ temp_timestamp[m2] = now
        /\ Len(Entries(rate_timestamps, channel[m1])) = rate_limit_per_minute - 1
        /\ rate_limit_per_minute > 1

\* C7: for every score 0..9 the oracle gives and every threshold, the task
\* responds exactly when score >= threshold
C7_ThresholdDecision ==
    \A m \in Slots :
        (oracle[m].status = "ok" /\ oracle[m].score \in Scores) =>
            /\ result[m].enthusiasm_score = oracle[m].score
            /\ result[m].should_skip <=> oracle[m].score < threshold
            /\ outcome[m] = "respond" <=> oracle[m].score >= threshold

\* with threshold 5, score 9 responds, score 5 responds and score 4 is skipped
C7_Witness ==
    /\ threshold = 5
    /\ \E m1, m2 \in Slots :
        /\ oracle[m1] = [status |-> "ok", score |-> 5] /\ outcome[m1] = "respond"
        /\ oracle[m2] = [status |-> "ok", score |-> 4] /\ outcome[m2] = "skip"

\* C8: when the oracle call fails the task still ends with a decision: it
\* responds, with score 8 and the error as reasoning, whatever the threshold
C8_FailOpen ==
    \A m \in Slots :
        oracle[m].status = "error" =>
            /\ pc[m] \in {"responding", "done"}
            /\ outcome[m] = "respond"
            /\ ~result[m].should_skip
            /\ result[m].enthusiasm_score = 8
            /\ result[m].reasoning = "Error"

\* the oracle failed under a threshold above the fallback score, and the task responds
C8_Witness ==
    \E m \in Slots :
        /\ oracle[m].status = "error"
        /\ threshold > 8
        /\ outcome[m] = "respond"

Reconciles == call' # call /\ call'.op = "reconcile"

\* C11: process as a transition function.  With the coordinator enabled: not
\* rate-limited and input true gives rate-limited and lastChangeAt = now;
\* rate-limited and input false gives not rate-limited and lastChangeAt = now;
\* input equal to the state and watchdog not due leaves both unchanged.  With
\* the coordinator disabled the call changes nothing.
C11_ReconcileTransitions ==
    [][Reconciles =>
         IF env_coordination \in {"true", "unset"}
         THEN /\ (~is_rate_limited /\ call'.rate_limited) =>
                    (is_rate_limited' /\ last_status_change' = now)
              /\ (is_rate_limited /\ ~call'.rate_limited) =>
                    (~is_rate_limited' /\ last_status_change' = now)
              /\ ( /\ call'.rate_limited = is_rate_limited
                   /\ ~(is_rate_limited /\ now - last_status_change > 65) ) =>
                    (is_rate_limited' = is_rate_limited /\ last_status_change' = last_status_change)
         ELSE is_rate_limited' = is_rate_limited /\ last_status_change' = last_status_change]_vars

\* a call with input false has just taken the coordinator from rate-limited to
\* not rate-limited before the watchdog was due
C11_Witness ==
    /\ call.op = "reconcile"
    /\ call.was /\ ~call.rate_limited
    /\ call.at - call.was_last <= 65
    /\ ~is_rate_limited
    /\ last_status_change = call.at
    /\ call.at > call.was_last

\* C12: when the platform call of a transition fails, the coordinator still
\* takes the new state and the new change time, the platform presence stays as
\* it was, and process returns True
C12_FailureAbsorbed ==
    [][( /\ Reconciles
         /\ env_coordination \in {"true", "unset"}
         /\ ShouldBe(call'.rate_limited, is_rate_limited, last_status_change, now) # is_rate_limited
         /\ ~call'.ok ) =>
            /\ is_rate_limited' = ShouldBe(call'.rate_limited, is_rate_limited, last_status_change, now)
            /\ is_rate_limited' # is_rate_limited
            /\ last_status_change' = now
            /\ presence' = presence
            /\ call'.returns]_vars

\* the coordinator went to rate-limited although the platform call failed: the
\* platform still shows online
C12_Witness ==
    /\ call.op = "reconcile"
    /\ ~call.ok
    /\ ~call.was
    /\ is_rate_limited
    /\ last_status_change = call.at
    /\ presence = "online"

LooksUp(k) ==
    /\ k \in DOMAIN last_lookup'
    /\ k \notin DOMAIN last_lookup \/ last_lookup'[k] # last_lookup[k]

\* C14: the status cache never holds "unknown"; a lookup that returns
\* "unknown" has asked for the member and has left the cache as it was; and
\* the lookup that follows one that returned "unknown" for the same key asks
\* for the member again
C14_UnknownNotCached ==
    [][/\ \A k \in DOMAIN status_cache' : status_cache'[k].status # "unknown"
       /\ \A k \in {CacheKey(g, b) : g \in Guilds, b \in Peers} :
             LooksUp(k) =>
                /\ last_lookup'[k].returned = "unknown" =>
                        (last_lookup'[k].queried /\ status_cache' = status_cache)
                /\ (k \in DOMAIN last_lookup /\ last_lookup[k].returned = "unknown") =>
                        last_lookup'[k].queried
                /\ ~last_lookup'[k].queried =>
                        (k \in DOMAIN status_cache /\ last_lookup'[k].returned = status_cache[k].status)]_vars

\* a peer that was resolved earlier could not be resolved now: the lookup
\* returned "unknown" and the cache still holds the old, stale entry
C14_Witness ==
    \E k \in DOMAIN last_lookup :
        /\ last_lookup[k].returned = "unknown"
        /\ last_lookup[k].at = now
        /\ k \in DOMAIN status_cache
        /\ status_cache[k].status = "online"
        /\ now - status_cache[k].time >= CACHE_SECONDS

\* C15: who_is_directly_addressed follows the first matching rule of: the
\* message mentions the bot -> "me"; it mentions another user ->
\* "someone_else"; the bot's name is in the text -> "me"; a known human's name
\* is in the text -> "someone_else"; otherwise "nobody" (stated for messages
\* that do not mention @everyone)
C15_AddressingPrecedence ==
    ~message.mention_everyone =>
        addressing =
            IF "self" \in message.mentions THEN "me"
            ELSE IF message.mentions # {} THEN "someone_else"
            ELSE IF "self" \in message.names THEN "me"
            ELSE IF discord_context.humans \cap message.names # {} THEN "someone_else"
            ELSE "nobody"

\* the window example of C16: five messages, the bot's at index 2
FlowExample == <<"alice", "peer", "self", "alice", "peer">>

\* C16: messages_since_last_bot is the number of messages after the last one
\* by the bot, the whole length when the bot wrote none, 0 for an empty window
C16_FlowSignal ==
    LET n == Len(recent_messages)
        mine == {i \in 1 .. n : recent_messages[i] = "self"}
        newer == {j \in 1 .. n : \A i \in mine : j > i}
    IN  /\ flow.messages_since_last_bot = Cardinality(newer)
        /\ mine = {} => flow.messages_since_last_bot = n
        /\ n = 0 => flow.messages_since_last_bot = 0
        /\ recent_messages = FlowExample => flow.messages_since_last_bot = 2

\* a window in which the bot wrote twice, the last time at index 2 of 5
C16_Witness ==
    /\ recent_messages = <<"self", "alice", "self", "alice", "peer">>
    /\ flow.last_bot_message_idx = 2
    /\ flow.messages_since_last_bot = 2

\* C17: an eviction run again at the same instant changes nothing: the monitor
\* leaves a channel map that its eviction maps to itself, and
\* clear_old_cache_entries leaves a cache that it maps to itself
C17_IdempotentSweep ==
    [][/\ (next_monitor' # next_monitor /\ env_coordination = "true") =>
             /\ rate_timestamps' = Cleanup(rate_timestamps, now)
             /\ Cleanup(rate_timestamps', now) = rate_timestamps'
       /\ (call' # call /\ call'.op = "clear_old_cache_entries") =>
             /\ status_cache' = ClearOld(status_cache, now)
             /\ ClearOld(status_cache', now) = status_cache'
             /\ ExpiredKeys(status_cache', now) = {}]_vars

\* both evictions have run at this instant and both removed something: the
\* monitor popped channel c1 and kept c2, whose newest timestamp is exactly
\* 120 seconds old; the cache lost an entry and kept one
C17_Witness ==
    /\ next_monitor = now + MONITOR_INTERVAL
    /\ env_coordination = "true"
    /\ DOMAIN rate_timestamps = {"c2"}
    /\ \E i \in 1 .. Len(rate_timestamps["c2"]) : now - rate_timestamps["c2"][i] = 120
    /\ call.op = "clear_old_cache_entries"
    /\ call.calls >= 1
    /\ status_cache # <<>>

\* the step is an iteration of background_status_monitor that ran to its end
Sweeps == next_monitor' # next_monitor

\* C18 as stated: the monitor's loop never ends on a failure inside an
\* iteration, only on cancellation
C18_Original == monitor # "failed"

\* C18 as amended: a failed presence read or write inside an iteration is
\* absorbed (the iteration finishes its eviction and the next one is
\* scheduled 30 s later); any other exception in an iteration, here the
\* ValueError of a malformed RATE_LIMIT_PER_MINUTE, ends the loop for good, as
\* does cancellation
C18_PresenceFailureAbsorbed ==
    [][/\ Sweeps => (monitor' = "running" /\ next_monitor' = now + MONITOR_INTERVAL)
       /\ ( /\ Sweeps /\ env_coordination = "true"
            /\ presence = "dnd" /\ ~AnyRateLimited(rate_timestamps, now)
            /\ presence' = "dnd" ) =>
             rate_timestamps' = Cleanup(rate_timestamps, now)
       /\ (monitor = "running" /\ monitor' = "failed") =>
             /\ env_coordination = "true" /\ rate_limit_per_minute = Malformed
             /\ UNCHANGED <<presence, rate_timestamps, next_monitor>>
       /\ monitor # "running" =>
             UNCHANGED <<monitor, next_monitor>>]_vars

\* the platform shows do-not-disturb, no channel is rate-limited, the monitor
\* has just run and its presence write failed, and it is scheduled again
C18_Witness ==
    /\ monitor = "running"
    /\ env_coordination = "true"
    /\ next_monitor = now + MONITOR_INTERVAL
    /\ presence = "dnd"
    /\ ~AnyRateLimited(rate_timestamps, now)
    /\ call.op = "reconcile" /\ call.at < now

Fails(m) ==
    /\ pc[m] # "done" \/ SlotState(m)' # SlotState(m)
    /\ pc'[m] = "done"
    /\ stages'[m] = <<>> \/ stages'[m][Len(stages'[m])] = "error"
    /\ <<pc[m], stages[m], outcome[m]>> # <<pc'[m], stages'[m], outcome'[m]>>

\* C20: a task that ends in an error sends nothing into the channel, and its
\* failure leaves the other tasks, the monitor, the rate window and the
\* coordinator as they were; a failed presence write during the rate check
\* does not end the task; no task ever sends anything but its response
C20_SilentSkip ==
    [][/\ \A m \in Slots :
             Fails(m) =>
                /\ sent'[m] = "nothing"
                /\ \A n \in Slots \ {m} : SlotState(n)' = SlotState(n) /\ sent'[n] = sent[n]
                /\ UNCHANGED <<monitor, next_monitor, rate_timestamps, presence,
                               is_rate_limited, last_status_change>>
       /\ \A m \in Slots :
             ( /\ Arrives(m) /\ env_coordination = "true"
               /\ outcome'[m] # "rate_limited"
               /\ Len(Entries(rate_timestamps, channel'[m])) >= rate_limit_per_minute
               /\ presence = "dnd" /\ presence' = "dnd" ) =>
                stages'[m] = <<"admit", "validate">>
       /\ \A m \in Slots :
             /\ sent'[m] \in {"nothing", "response"}
             /\ sent'[m] = "response" => stages'[m][Len(stages'[m])] = "send"]_vars

\* one task failed while generating or sending its response and sent nothing;
\* a task that arrived later has sent its response, and the monitor has run
C20_Witness ==
    \E m1, m2 \in Slots :
        /\ stages[m1] # <<>> /\ stages[m1][Len(stages[m1])] = "error"
        /\ sent[m1] = "nothing"
        /\ sent[m2] = "response"
        /\ temp_timestamp[m2] > temp_timestamp[m1]
        /\ next_monitor > MONITOR_INTERVAL
        /\ monitor = "running"

\* C21: the timestamp a responding task commits is its temp_timestamp, taken
\* on arrival right after the admission check and carried unchanged through the
\* pacing delay and the oracle call, whatever the time of the decision; the
\* commit comes before the coordinator call and before anything is generated
\* or sent
C21_CommitsArrivalTimestamp ==
    [][\A m \in Slots :
         /\ (Arrives(m) /\ pc'[m] = "pacing") => temp_timestamp'[m] = now
         /\ pc[m] \in {"pacing", "scoring"} => temp_timestamp'[m] = temp_timestamp[m]
         /\ (pc[m] = "scoring" /\ pc'[m] = "responding") =>
                /\ Entries(rate_timestamps', channel[m])
                      = Append(Entries(rate_timestamps, channel[m]), temp_timestamp[m])
                /\ stages'[m] = <<"admit", "validate", "pace", "oracle", "decide", "commit", "reconcile">>
                /\ sent'[m] = "nothing"]_vars

\* a task that arrived first decided after a later task had arrived and
\* committed: the list holds the later arrival time before the earlier one
C21_Witness ==
    \E m1, m2 \in Slots :
        /\ pc[m1] = "responding" /\ outcome[m2] = "respond"
        /\ channel[m1] = channel[m2]
        /\ temp_timestamp[m1] < temp_timestamp[m2]
        /\ Entries(rate_timestamps, channel[m1]) = <<temp_timestamp[m2], temp_timestamp[m1]>>

\* C22: the watchdog overrides the input.  With the coordinator enabled, a
\* process call with input true made while it is rate-limited sets it to not
\* rate-limited, with lastChangeAt = now, when now - lastChangeAt > 65, and
\* leaves it rate-limited, lastChangeAt unchanged, when now - lastChangeAt <= 65
C22_WatchdogOverridesInput ==
    [][( /\ Reconciles
         /\ env_coordination \in {"true", "unset"}
         /\ is_rate_limited
         /\ call'.rate_limited ) =>
            IF now - last_status_change > 65
            THEN ~is_rate_limited' /\ last_status_change' = now
            ELSE is_rate_limited' /\ last_status_change' = last_status_change]_vars

\* 66 seconds after the change to rate-limited a call with input true has set
\* the coordinator to not rate-limited and the platform to online
C22_Witness ==
    /\ call.op = "reconcile"
    /\ call.was /\ call.rate_limited /\ call.ok
    /\ call.at - call.was_last = 66
    /\ ~is_rate_limited
    /\ last_status_change = call.at
    /\ presence = "online"

C24_CacheTTL ==
    [][\A k \in {CacheKey(g, b) : g \in Guilds, b \in Peers} :
         LooksUp(k) =>
            LET l == last_lookup'[k]
            IN  IF k \in DOMAIN status_cache /\ now - status_cache[k].time < CACHE_SECONDS
                THEN /\ ~l.queried
                     /\ l.returned = status_cache[k].status
                     /\ status_cache' = status_cache
                ELSE /\ l.queried
                     /\ IF l.found \in Statuses
                        THEN /\ l.returned = l.found
                             /\ status_cache' = Put(status_cache, k, [status |-> l.found, time |-> now])
                        ELSE /\ l.returned = "unknown"
                             /\ status_cache' = status_cache]_vars

\* one peer was answered from the cache; another, whose entry had reached the
\* TTL, was looked up again and its entry replaced by the new status
C24_Witness ==
    \E k1, k2 \in DOMAIN last_lookup :
        /\ k1 # k2
        /\ ~last_lookup[k1].queried
        /\ last_lookup[k1].returned = status_cache[k1].status
        /\ last_lookup[k2].queried /\ last_lookup[k2].at = now
        /\ last_lookup[k2].returned = "dnd"
        /\ status_cache[k2] = [status |-> "dnd", time |-> now]
        /\ now >= CACHE_SECONDS

\* C25: an iteration of the monitor that reaches its eviction removes exactly
\* the channels whose list is empty or whose most recent timestamp is more
\* than 120 s old, and leaves every other channel's list as it was
C25_SweepRemovalRule ==
    [][(Sweeps /\ env_coordination = "true") =>
         LET rt == rate_timestamps
             removed == {c \in DOMAIN rt :
                           \/ rt[c] = <<>>
                           \/ \E i \in 1 .. Len(rt[c]) :
                                 /\ \A j \in 1 .. Len(rt[c]) : rt[c][j] <= rt[c][i]
                                 /\ now - rt[c][i] > 2 * RATE_WINDOW}
         IN  /\ DOMAIN rate_timestamps' = DOMAIN rt \ removed
             /\ \A c \in DOMAIN rate_timestamps' : rate_timestamps'[c] = rt[c]]_vars

\* the monitor has just run at time 181: channel c2 is gone, channel c1 is
\* kept with both its timestamps, the newer exactly 120 s old, the older 181 s
C25_Witness ==
    /\ now = 181
    /\ next_monitor = now + MONITOR_INTERVAL
    /\ env_coordination = "true"
    /\ DOMAIN rate_timestamps = {"c1"}
    /\ rate_timestamps["c1"] = <<61, 0>>

\* C26: every iteration of the monitor, whatever BOT_STATUS_COORDINATION is,
\* evicts the dead channels from the rate window map and the hard-expired
\* entries (older than twice the TTL) from the peer status cache
C26_SweepEvictsBoth ==
    [][Sweeps =>
         /\ rate_timestamps' = Cleanup(rate_timestamps, now)
         /\ status_cache' = ClearOld(status_cache, now)]_vars

\* the step is the force_online command
Forces == call' # call /\ call'.op = "force_online"

\* C27 as stated: the coordinator's flag and change time are changed only by
\* process, and the platform presence is written only by process
C27_Original ==
    [][/\ <<is_rate_limited, last_status_change>>' # <<is_rate_limited, last_status_change>>
             => Reconciles
       /\ presence' # presence => Reconciles]_vars

\* C27 as amended: the flag and the change time are written by process and by
\* the force_online command, which sets them to (not rate-limited, now) from
\* outside whatever the coordinator's setting; the reject handling, the
\* admission check and the monitor never write them, but with
\* BOT_STATUS_COORDINATION "true" they write the platform presence themselves,
\* whatever the coordinator's flag
C27_StateWriters ==
    [][/\ <<is_rate_limited, last_status_change>>' # <<is_rate_limited, last_status_change>>
             => (Reconciles \/ Forces)
       /\ Forces => (~is_rate_limited' /\ last_status_change' = now)
       /\ ((\E m \in Slots : Arrives(m)) \/ Sweeps)
             => UNCHANGED <<is_rate_limited, last_status_change>>
       /\ presence' # presence =>
             \/ Reconciles \/ Forces
             \/ /\ env_coordination = "true"
                /\ UNCHANGED <<is_rate_limited, last_status_change, call>>
                /\ Sweeps \/ (\E m \in Slots : pc'[m] \in {"pacing", "done"} /\ stages'[m] # <<>>)]_vars

\* force_online has reset a rate-limited coordinator; a message has since been
\* refused and its handler has set the platform to do-not-disturb, while the
\* coordinator holds "not rate limited"
C27_Witness ==
    /\ call.op = "force_online" /\ call.was
    /\ ~is_rate_limited
    /\ last_status_change = call.at
    /\ env_coordination = "true"
    /\ pc[OwnerSlot] = "done" /\ outcome[OwnerSlot] = "rate_limited"
    /\ presence = "dnd"
    /\ call.ok

\* the reply has no SCORE line with a digit in its text
NoParsableScore(response) ==
    \A i \in 1 .. Len(response.lines) :
        response.lines[i].tag = "SCORE" =>
            \A j \in 1 .. Len(response.lines[i].text) :
                response.lines[i].text[j] \notin {"0", "1", "3", "7", "9"}

\* the reply has none of the things the parser looks for
NothingToParse(response) ==
    /\ NoParsableScore(response)
    /\ \A i \in 1 .. Len(response.lines) : response.lines[i].tag \in {"SCORE", "other"}
    /\ ~response.xml.present

\* C28 as stated: every parsed reply has a score in 0..9, at most 4
\* activities and the raw text; a reply with no parsable score gives the
\* default result: score 5, no topic change, no activities
C28_Original ==
    parsed_result # NoParse =>
        /\ parsed_result.score \in 0 .. 9
        /\ Len(parsed_result.activities) <= 4
        /\ parsed_result.raw_response = llm_response
        /\ NoParsableScore(llm_response) =>
                /\ parsed_result.score = 5
                /\ ~parsed_result.topic_change
                /\ parsed_result.activities = <<>>

\* C28 as amended: every reply text is parsed into a result with a score in
\* 0..9, at most 4 activities and the raw text, and process returns a result
\* for it; the fields default one by one: no parsable score gives score 5
\* whatever the other lines say, and only a reply with none of the fields
\* gives the whole default result
C28_ParseTotal ==
    /\ llm_response.status = "ok" /\ unified_result.returned => parsed_result # NoParse
    /\ parsed_result # NoParse =>
        /\ parsed_result.score \in 0 .. 9
        /\ Len(parsed_result.activities) <= 4
        /\ parsed_result.raw_response = llm_response
        /\ unified_result.returned
        /\ unified_result.enthusiasm_score = parsed_result.score
        /\ NoParsableScore(llm_response) => parsed_result.score = 5
        /\ NothingToParse(llm_response) =>
                /\ ~parsed_result.topic_change
                /\ parsed_result.activities = <<>>
                /\ parsed_result.reasoning = ""

\* a reply whose SCORE line has no digit but which asks for a topic change and
\* lists five activities: score 5, topic change, the first four activities
C28_Witness ==
    /\ llm_response.status = "ok"
    /\ \E i \in 1 .. Len(llm_response.lines) :
          llm_response.lines[i] = [tag |-> "SCORE", text |-> <<"x">>]
    /\ NoParsableScore(llm_response)
    /\ parsed_result.score = 5
    /\ parsed_result.topic_change
    /\ parsed_result.activities = <<"a", "b", "c", "d">>
    /\ ~llm_response.xml.present

\* what the reply's last TOPIC_CHANGE line says, no topic change without one
OracleTopicChange(response) ==
    LET at == {i \in 1 .. Len(response.lines) : response.lines[i].tag = "TOPIC_CHANGE"}
    IN  \E i \in at : (\A j \in at : j <= i) /\ response.lines[i].text[1] \in {"YES", "yes"}

\* C29: the topic_change flag and the activities that process returns are
\* those of the oracle's reply, whether the decision is to respond or to skip;
\* a boredom keyword in the current message goes into the prompt and never by
\* itself makes topic_change true; after a failed oracle call there is no
\* topic change and no activity
C29_TopicPassThrough ==
    unified_result.returned =>
        IF llm_response.status = "ok"
        THEN /\ unified_result.topic_change = OracleTopicChange(llm_response)
             /\ unified_result.topic_change = parsed_result.topic_change
             /\ unified_result.activities = parsed_result.activities
             /\ unified_result.should_skip = (parsed_result.score < threshold)
             /\ prompt = [built |-> TRUE, boredom_trigger_detected |-> prompt.boredom_trigger_detected]
        ELSE ~unified_result.topic_change /\ unified_result.activities = <<>>

\* the current message had a boredom keyword, the oracle answered score 0 and
\* TOPIC_CHANGE: NO with a list of activities: the message is skipped, the
\* result has no topic change and carries the activities
C29_Witness ==
    /\ prompt.boredom_trigger_detected
    /\ llm_response.status = "ok"
    /\ \E i \in 1 .. Len(llm_response.lines) :
          llm_response.lines[i] = [tag |-> "TOPIC_CHANGE", text |-> <<"NO">>]
    /\ unified_result.returned
    /\ unified_result.should_skip
    /\ unified_result.enthusiasm_score = 0
    /\ ~unified_result.topic_change
    /\ unified_result.activities = <<"a", "b", "c", "d">>

\* C30: the delay of _add_random_delay is a suspension point that can be
\* cancelled.  A task cancelled in its delay is over: it made no oracle call,
\* committed no timestamp, reconciled nothing and sent nothing.  And while a
\* task waits in its delay, every other task can take its own next step,
\* whichever channel its message came from: a new message can be admitted on
\* either channel, a delay can end, an oracle reply can be decided on and a
\* response can be sent.
C30_CancellableDelay ==
    /\ \A m \in Slots : outcome[m] = "cancelled" =>
            /\ pc[m] = "done"
            /\ stages[m] = <<"admit", "validate", "cancelled">>
            /\ oracle[m] = NoReply
            /\ result[m] = NoResult
            /\ sent[m] = "nothing"
    /\ \A m \in Slots : pc[m] = "pacing" =>
            \A n \in Slots \ {m} :
                /\ pc[n] \in {"idle", "done"} =>
                        \A c \in PaceChannels : ENABLED Arrive(n, c, "normal", TRUE)
                /\ pc[n] = "pacing" => ENABLED Pace(n) /\ ENABLED CancelDelay(n)
                /\ pc[n] = "scoring" =>
                        \A reply \in PaceReplies : ENABLED Score(n, reply, TRUE)
                /\ pc[n] = "responding" => ENABLED Generate(n, "none")

\* a task was cancelled in its delay, and a message that arrived later on the
\* same channel has been scored, committed and answered
C30_Witness ==
    \E m \in Slots, n \in Slots :
        /\ m # n
        /\ outcome[m] = "cancelled"
        /\ stages[m] = <<"admit", "validate", "cancelled">>
        /\ channel[n] = channel[m]
        /\ temp_timestamp[n] > temp_timestamp[m]
        /\ sent[n] = "response"
        /\ \E i \in 1 .. Len(Entries(rate_timestamps, channel[n])) :
                Entries(rate_timestamps, channel[n])[i] = temp_timestamp[n]
        /\ \A i \in 1 .. Len(Entries(rate_timestamps, channel[m])) :
                Entries(rate_timestamps, channel[m])[i] # temp_timestamp[m]

\* C31: an admitted pipeline always reaches a terminal outcome, also when the
\* oracle does not answer: a pending oracle call does not stay pending for ever,
\* and while it is pending every other task can take its next step and the
\* monitor runs its iteration when its sleep is over.
C31_OracleTimeout ==
    /\ \A m \in Slots : (pc[m] = "in_call") ~> (pc[m] = "done")
    /\ [](\A m \in Slots : pc[m] = "in_call" =>
            /\ \A n \in Slots \ {m} : pc[n] = "pacing" => ENABLED (Turn(n) /\ Pace(n))
            /\ (monitor = "running" /\ now = next_monitor) => ENABLED MonitorStep)

\* the status filter_mentions_by_status works from for bot b: the cached one
\* while the cache entry is fresh, else the one the member lookup gives
LookedUpStatus(b, cache, in, t) ==
    ModuleCheckBotStatus(cache, CacheKey("g1", b), in.guild[b], t).returned

Count(text, tok) == Len(SelectSeq(text, LAMBDA x : x = tok))

\* C32: after filter_mentions_by_status, for every mention in the text: if the
\* mentioned peer is busy and mention_dnd is false, or offline and
\* mention_offline is false, the mention is gone from the text, and the peer's
\* display name stands in its place when the peer is resolvable and nothing
\* when it is not; every other mention is in the text as often as before.
C32_FilterMentionsByPolicy ==
    filtered_text # NoText =>
        \A mention \in MentionTokens :
            LET b == BotId(mention)
                in == filter_input
                status == LookedUpStatus(b, bot_status_cache, in, now)
                barred == \/ status = "dnd" /\ ~in.mention_dnd
                          \/ status = "offline" /\ ~in.mention_offline
                resolvable == in.guild[b] \notin {"raises", "nobody"}
                names == Count(filtered_text, DisplayName(b))
                mentions == Len(SelectSeq(in.text, LAMBDA x : x \in MentionTokens /\ BotId(x) = b))
            IN  IF barred
                THEN /\ Count(filtered_text, mention) = 0
                     /\ names = IF resolvable THEN mentions ELSE 0
                ELSE Count(filtered_text, mention) = Count(in.text, mention)

\* C33: after any prune of a rate window the window holds at most twice
\* `limit` entries: the prune of an admission check leaves at most
\* 2 * rate_limit_per_minute timestamps in the channel's list.
C33_DefensiveCap ==
    [][\A m \in CapSlots :
          (pc[m] \in {"idle", "done"} /\ pc'[m] \in {"pacing", "done"} /\ stages'[m] # <<>>
              /\ <<pc[m], temp_timestamp[m], stages[m], rate_timestamps>>
                     # <<pc'[m], temp_timestamp'[m], stages'[m], rate_timestamps'>>)
          => Len(Entries(rate_timestamps', channel'[m])) <= 2 * rate_limit_per_minute]_vars

NonDecreasing(timestamps) ==
    \A i \in 1 .. Len(timestamps) - 1 : timestamps[i] <= timestamps[i + 1]

\* C34 as stated: the timestamps stored for a channel are in non-decreasing
\* order, whatever the interleaving of the tasks that commit them
C34_Original == \A c \in DOMAIN rate_timestamps : NonDecreasing(rate_timestamps[c])

\* C34 as amended: a channel's list is in commit order.  A commit puts the
\* task's arrival timestamp, which is never later than the time of the commit,
\* at the end of the list and leaves the entries before it as they were; an
\* admission check keeps the live entries in the order they had; no entry is
\* later than the current time.
C34_CommitOrder ==
    [][/\ (\A m \in Slots :
            (pc[m] = "scoring" /\ pc'[m] = "responding") =>
                /\ Entries(rate_timestamps', channel[m])
                       = Append(Entries(rate_timestamps, channel[m]), temp_timestamp[m])
                /\ temp_timestamp[m] <= now)
       /\ (\A n \in Slots :
            Arrives(n) =>
                Entries(rate_timestamps', channel'[n])
                    = SelectSeq(Entries(rate_timestamps, channel'[n]),
                                LAMBDA t : now - t <= RATE_WINDOW))
       /\ (\A c \in DOMAIN rate_timestamps' :
            \A i \in 1 .. Len(rate_timestamps'[c]) : rate_timestamps'[c][i] <= now')]_vars

\* two tasks have committed on one channel, the one that arrived later first:
\* the list holds the later timestamp before the earlier one
C34_Witness ==
    \E m \in Slots, n \in Slots :
        /\ m # n
        /\ channel[m] = channel[n]
        /\ "commit" \in {stages[m][i] : i \in 1 .. Len(stages[m])}
        /\ "commit" \in {stages[n][i] : i \in 1 .. Len(stages[n])}
        /\ temp_timestamp[m] < temp_timestamp[n]
        /\ Entries(rate_timestamps, channel[m]) = <<temp_timestamp[n], temp_timestamp[m]>>

\* C35: the presence is never set from do-not-disturb to online while some
\* channel still holds at least rate_limit_per_minute timestamps of the last
\* 60 seconds, neither by an admission check that finds its channel's limit
\* expired nor by the monitor.
C35_OnlineOnlyWhenAllClear ==
    [][(presence = "dnd" /\ presence' = "online")
           => ~AnyRateLimited(rate_timestamps', now)]_vars

\* the count an admission check on channel c would see at time t
AdmitCount(rt, c, t) == Len(AdmitWindow(Entries(rt, c), t))

\* the task m commits its timestamp in this step
CommitsNow(m) == pc[m] \in {"scoring", "in_call"} /\ pc'[m] = "responding"

\* C36 as stated: right after a commit an admission check on the same channel
\* sees a count one higher than it would have seen without the commit, however
\* long the task took before it committed
C36_Original ==
    [][\A m \in Slots :
          CommitsNow(m) =>
              AdmitCount(rate_timestamps', channel[m], now)
                  = AdmitCount(rate_timestamps, channel[m], now) + 1]_vars

\* C36 as amended: a commit counts toward the next admission exactly when the
\* arrival timestamp it commits is still inside the window: right after the
\* commit an admission check on the channel sees one more if the task arrived
\* at most 60 seconds ago, and the same count as without the commit if the
\* task took longer than that
C36_CommitCountsWhileLive ==
    [][\A m \in Slots :
          CommitsNow(m) =>
              AdmitCount(rate_timestamps', channel[m], now)
                  = AdmitCount(rate_timestamps, channel[m], now)
                    + (IF now - temp_timestamp[m] <= RATE_WINDOW THEN 1 ELSE 0)]_vars

\* a task has committed more than 60 seconds after it arrived: its timestamp is
\* in the channel's list and an admission check now would count none
C36_Witness ==
    \E m \in Slots :
        /\ pc[m] = "responding"
        /\ now - temp_timestamp[m] > RATE_WINDOW
        /\ Entries(rate_timestamps, channel[m]) = <<temp_timestamp[m]>>
        /\ AdmitCount(rate_timestamps, channel[m], now) = 0

\* the response step of task m fails in this step
FailsToRespond(m) ==
    pc[m] = "responding" /\ pc'[m] = "done" /\ stages'[m] = Append(stages[m], "error")

\* C37: a committed timestamp is never rolled back.  A task whose response
\* generation or sending fails sends nothing and leaves the channel lists as
\* they are, with its own timestamp in its channel's list unless that has
\* left the window by age; and no step of any kind takes a timestamp that is
\* still inside the window out of a channel's list.
C37_NoRollback ==
    [][/\ (\A m \in Slots :
            FailsToRespond(m) =>
                /\ rate_timestamps' = rate_timestamps
                /\ sent'[m] = "nothing"
                /\ now - temp_timestamp[m] <= RATE_WINDOW =>
                        \E i \in 1 .. Len(Entries(rate_timestamps', channel[m])) :
                            rate_timestamps'[channel[m]][i] = temp_timestamp[m])
       /\ (\A c \in DOMAIN rate_timestamps :
            \A i \in 1 .. Len(rate_timestamps[c]) :
                LET t == rate_timestamps[c][i]
                IN  now' - t <= RATE_WINDOW =>
                        Len(SelectSeq(Entries(rate_timestamps', c), LAMBDA x : x = t))
                            >= Len(SelectSeq(rate_timestamps[c], LAMBDA x : x = t)))]_vars

\* with a limit of one, the response of one task failed after its commit, and
\* the other task's message on the channel was refused on the strength of that
\* timestamp alone
C37_Witness ==
    \E m \in Slots, n \in Slots :
        /\ m # n
        /\ rate_limit_per_minute = 1
        /\ pc[m] = "done" /\ stages[m] # <<>> /\ stages[m][Len(stages[m])] = "error"
        /\ sent[m] = "nothing"
        /\ outcome[n] = "rate_limited" /\ channel[n] = channel[m]
        /\ Entries(rate_timestamps, channel[m]) = <<temp_timestamp[m]>>
        /\ now - temp_timestamp[m] <= RATE_WINDOW

\* C38: no commit is lost to the monitor's eviction.  A commit leaves the
\* task's timestamp as the last entry of its channel's list, creating the list
\* when the channel has none (the monitor removed it while the task was in
\* flight), and touches no other channel; an eviction removes whole channels
\* only, none of them holding a timestamp of the last 120 seconds, and leaves
\* every other list exactly as it was.
C38_NoCommitLost ==
    [][/\ (\A m \in Slots :
            CommitsNow(m) =>
                /\ channel[m] \in DOMAIN rate_timestamps'
                /\ rate_timestamps'[channel[m]]
                       = Append(IF channel[m] \in DOMAIN rate_timestamps
                                THEN rate_timestamps[channel[m]] ELSE <<>>,
                                temp_timestamp[m])
                /\ \A c \in DOMAIN rate_timestamps \ {channel[m]} :
                       c \in DOMAIN rate_timestamps' /\ rate_timestamps'[c] = rate_timestamps[c])
       /\ (Sweeps =>
                /\ DOMAIN rate_timestamps' \subseteq DOMAIN rate_timestamps
                /\ \A c \in DOMAIN rate_timestamps' : rate_timestamps'[c] = rate_timestamps[c]
                /\ \A c \in DOMAIN rate_timestamps \ DOMAIN rate_timestamps' :
                       \A i \in 1 .. Len(rate_timestamps[c]) :
                           now - rate_timestamps[c][i] > CLEANUP_AGE)]_vars

\* a task is in flight, between its admission and its decision, and the
\* monitor has removed the entry its admission check created for the channel
C38_Witness ==
    \E m \in Slots :
        /\ pc[m] \in {"pacing", "scoring"}
        /\ env_coordination = "true"
        /\ channel[m] \notin DOMAIN rate_timestamps
        /\ next_monitor > MONITOR_INTERVAL

\* C39: do-not-disturb is not permanent.  With BOT_STATUS_COORDINATION true
\* and the monitor scheduled fairly, the presence does not stay do-not-disturb
\* for ever with no channel rate-limited unless messages keep arriving: once
\* messages have stopped and the timestamps have left the window, the monitor
\* sets the presence back to online.
C39_BusyNotPermanent ==
    (<>[](/\ presence = "dnd"
          /\ \A c \in DOMAIN rate_timestamps :
                LiveCount(rate_timestamps[c], now) < rate_limit_per_minute))
        => []<><<\E m \in Slots : Arrives(m)>>_vars

\* a message was refused while the other task's timestamp filled the window,
\* no message has arrived since, the timestamp has left the window, and the
\* presence is online again
C39_Witness ==
    \E m \in Slots, n \in Slots :
        /\ m # n
        /\ env_coordination = "true"
        /\ outcome[m] = "rate_limited" /\ pc[m] = "done"
        /\ sent[n] = "response" /\ pc[n] = "done"
        /\ rate_timestamps = [c \in {channel[n]} |-> <<temp_timestamp[n]>>]
        /\ now - temp_timestamp[n] > RATE_WINDOW
        /\ presence = "online"

\* C40: a message admitted while the pipeline holds no enthusiasm processor is
\* treated as respond: in the same step its arrival timestamp is committed to
\* its channel's window and the task goes on to generate the response, with
\* the score read as 0; an error entry in place of the processor's result is
\* read the same way
NoDecision(unified) == "should_skip" \notin DOMAIN unified /\ "enthusiasm_score" \notin DOMAIN unified
C40_FailOpen ==
    /\ LET unified == UnifiedResultOf(PipelineProcess(UnifiedPipeline, TRUE, NoResult))
       IN  NoDecision(unified) /\ OnMessageOutcome(unified) = "respond" /\ EnthusiasmScore(unified) = 0
    /\ [][\A m \in Slots :
             (/\ ~InPipeline(processors, "unified_enthusiasm")
              /\ pc[m] \in {"idle", "done"}
              /\ SlotState(m)' # SlotState(m)
              /\ outcome'[m] # "rate_limited")
             => (/\ NoDecision(result'[m])
                 /\ outcome'[m] = "respond"
                 /\ temp_timestamp'[m] = now
                 /\ \E i \in 1 .. Len(Entries(rate_timestamps', channel'[m])) :
                        Entries(rate_timestamps', channel'[m])[i] = now
                 /\ pc'[m] = "responding"
                 /\ EnthusiasmScore(result'[m]) = 0)]_vars

\* a message of the bot itself, taken with the processor disabled, was
\* answered: its timestamp is in the window and the response was sent
C40_Witness ==
    /\ ~InPipeline(processors, "unified_enthusiasm")
    /\ \E m \in Slots :
          /\ pc[m] = "done"
          /\ kind[m] = "self"
          /\ outcome[m] = "respond"
          /\ NoDecision(result[m])
          /\ EnthusiasmScore(result[m]) = 0
          /\ stages[m] = <<"admit", "commit", "reconcile", "send">>
          /\ sent[m] = "response"
          /\ \E i \in 1 .. Len(Entries(rate_timestamps, channel[m])) :
                 Entries(rate_timestamps, channel[m])[i] = temp_timestamp[m]

====
